---- MODULE Spec2Model ----
(***************************************************************************)
(* Trust_Score_Module: the /submit request handler (Backend/app.py), the   *)
(* trust aggregator (Backend/verifier/trust_score.py) and the Aadhaar      *)
(* format validator (Backend/verifier/face_verifier.py).                   *)
(*                                                                         *)
(* Numbers.  A Python float is a fixed-point number of hundredths: 0.97 is *)
(* 97, 20.0 is 2000, a trust score of 25.0 points is 2500.  A Python int   *)
(* that enters float arithmetic is converted by I2F.  round(x, 2) of an    *)
(* exact value that lies half-way between two hundredths is decided by the *)
(* binary representation of x; py_round gives both neighbours there and    *)
(* the one nearest hundredth everywhere else.                              *)
(***************************************************************************)
EXTENDS Integers, Sequences, FiniteSets, TLC

VARIABLES
    agg,        \* one call of verifier.trust_score.calculate_trust_score: [in, out]
    aad,        \* one call of validate_aadhaar_format: [in, out]
    pan,        \* one call of validate_pan: [in, out]
    off,        \* one call of verify_aadhaar_offline: [in, out]
    face,       \* one call of verify_face: [in, out]
    doc,        \* one call of verify_supporting_document: [in, out]
    narr,       \* one call of StoryNLPVerifier.score_story: [in, out]
    fraud,      \* one call of StoryNLPVerifier.check_fraud_markers: [in, out]
    eng,        \* one call of calculate_engagement_score: [in, out]
    pc,         \* /submit: each request's position in the handler
    form,       \* /submit: request.form and request.files of each request
    locals,     \* /submit: the handler's local variables of each request
    fs,         \* the file system: [cwd, dirs, files], see the file system below
    store,      \* the trust_score_records table (db.session.add + commit)
    response,   \* /submit: the response each request received
    reads,      \* history: whose uploads each request's verifiers have read
    calls       \* history: the verifiers and scorers each request has invoked

textVars == <<narr, fraud, eng>>
callVars == <<agg, aad, pan, off, face, doc, textVars>>
vars == <<callVars, pc, form, locals, fs, store, response, reads, calls>>
submitVars == <<pc, form, locals, fs, store, response, reads, calls>>

\* An optional str (dict.get, attrib.get) is a tuple: None is the empty tuple
\* and the str s is <<s>>, so that None differs from every str, the str "None"
\* included.
None == <<>>
Str(s) == <<s>>
text_of(value) == value[1]

\* not value, for an optional str: None and the empty str are false
not_value_none_only(value) == value = None

not_value(value) == value = None \/ value = Str("")

(***************************************************************************)
(* Fixed-point helpers                                                     *)
(***************************************************************************)
I2F(n) == 100 * n

Min(a, b) == IF a <= b THEN a ELSE b
Max(a, b) == IF a >= b THEN a ELSE b

\* round(n / d, 0) for d > 0: the nearest integer, both neighbours on a tie.
py_round(n, d) ==
    UNION {LET q == x \div d
               r == x % d
           IN  IF 2 * r < d THEN {q}
               ELSE IF 2 * r > d THEN {q + 1}
               ELSE {q, q + 1} : x \in {n}}

(***************************************************************************)
(* verifier/trust_score.py                                                 *)
(***************************************************************************)
\* weights, in hundredths
W_face == 20
W_doc == 20
W_emotion == 15
W_engagement == 10
W_story == 25
W_admin == 10

\* the 0-20 scale of the story score, and the value above which it is rescaled
StoryScale == 20
StoryNormAbove == 100

\* story_score / 20 if story_score > 1 else story_score, as a multiple of
\* 1 / (100 * StoryScale)
story_score_norm_dropped(story_score) == StoryScale * story_score

story_score_norm(story_score) ==
    IF story_score > StoryNormAbove THEN story_score ELSE StoryScale * story_score

\* The set of values round(trust_score, 2) can take, in hundredths of a point.
calculate_trust_score(face_score, doc_score, emotion_score, engagement_score, story_score, admin_adjustment) ==
    LET weighted == W_face * face_score
                    + W_doc * doc_score
                    + W_emotion * emotion_score
                    + W_engagement * engagement_score
                    + W_admin * admin_adjustment
    IN  py_round(StoryScale * weighted + W_story * story_score_norm(story_score),
                 StoryScale)

(***************************************************************************)
(* Strings.  A Python str is a TLA+ string; s[i] is char_at(s, i + 1).     *)
(* Python's \d, int() and str.lower() work on Unicode: NonAsciiThree, one  *)
(* character, stands for U+0663 ARABIC-INDIC DIGIT THREE, a decimal digit  *)
(* that is not one of "0".."9".                                            *)
(***************************************************************************)
char_at(s, i) == SubSeq(s, i, i)

AsciiDigits == "0123456789"
NonAsciiThree == "#"
UpperLetters == "ABCDEFGHIJKLMNOPQRSTUVWXYZ"
LowerLetters == "abcdefghijklmnopqrstuvwxyz"

\* the characters of a string, and the place of each character in it
Chars(alphabet) == {char_at(alphabet, i) : i \in 1..Len(alphabet)}
PlaceIn(alphabet) ==
    [ch \in Chars(alphabet) |-> CHOOSE i \in 1..Len(alphabet) : char_at(alphabet, i) = ch]

AsciiDigitChars == Chars(AsciiDigits)
UpperChars == Chars(UpperLetters)
LowerChars == Chars(LowerLetters)
DigitPlace == PlaceIn(AsciiDigits)
UpperPlace == PlaceIn(UpperLetters)

\* re: \d on a str pattern (any Unicode decimal digit)
is_decimal(ch) == ch \in AsciiDigitChars \/ ch = NonAsciiThree

\* int(ch) of a one-character string; defined (no ValueError) on decimal digits only
int(ch) == IF ch = NonAsciiThree THEN 3 ELSE DigitPlace[ch] - 1

(***************************************************************************)
(* verifier/face_verifier.py: validate_aadhaar_format                      *)
(***************************************************************************)
d_table == <<
    <<0,1,2,3,4,5,6,7,8,9>>,
    <<1,2,3,4,0,6,7,8,9,5>>,
    <<2,3,4,0,1,7,8,9,5,6>>,
    <<3,4,0,1,2,8,9,5,6,7>>,
    <<4,0,1,2,3,9,5,6,7,8>>,
    <<5,9,8,7,6,0,4,3,2,1>>,
    <<6,5,9,8,7,1,0,4,3,2>>,
    <<7,6,5,9,8,2,1,0,4,3>>,
    <<8,7,6,5,9,3,2,1,0,4>>,
    <<9,8,7,6,5,4,3,2,1,0>> >>

\* the permutation table with every row the identity
p_table_identity == [i \in 1..8 |-> <<0,1,2,3,4,5,6,7,8,9>>]

p_table == <<
    <<0,1,2,3,4,5,6,7,8,9>>,
    <<1,5,7,6,2,8,3,0,9,4>>,
    <<5,8,0,3,7,9,6,1,4,2>>,
    <<8,9,1,6,0,4,3,5,2,7>>,
    <<9,4,5,3,1,2,6,8,7,0>>,
    <<4,2,8,6,5,7,3,9,0,1>>,
    <<2,7,9,3,8,0,6,4,1,5>>,
    <<7,0,4,6,9,1,3,2,5,8>> >>

\* num[::-1]
RECURSIVE reversed(_)
reversed(num) ==
    IF Len(num) = 0 THEN ""
    ELSE char_at(num, Len(num)) \o reversed(SubSeq(num, 1, Len(num) - 1))

\* the loop without the position permutation p_table
verhoeff_loop_unpermuted(num) ==
    LET c[n \in 0..Len(num)] ==
            IF n = 0 THEN 0
            ELSE d_table[c[n - 1] + 1][int(char_at(num, n)) + 1]
    IN  c[Len(num)]

\* c = 0; for i in range(len(num)): c = d_table[c][p_table[i % 8][int(num[i])]]
verhoeff_loop(num) ==
    LET c[n \in 0..Len(num)] ==
            IF n = 0 THEN 0
            ELSE d_table[c[n - 1] + 1]
                        [p_table[((n - 1) % 8) + 1][int(char_at(num, n)) + 1] + 1]
    IN  c[Len(num)]

verhoeff_checksum_unreversed(num) == verhoeff_loop(num) = 0

verhoeff_checksum(num) == verhoeff_loop(reversed(num)) = 0

\* re.fullmatch(r"\d{12}", s)
fullmatch_d12(s) ==
    Len(s) = 12 /\ \A i \in 1..Len(s) : is_decimal(char_at(s, i))

validate_aadhaar_format(aadhaar_number) ==
    fullmatch_d12(aadhaar_number) /\ verhoeff_checksum(aadhaar_number)

(***************************************************************************)
(* String helpers: str.lower(), the substring test "a in b"                *)
(***************************************************************************)
lower(ch) == IF ch \in UpperChars THEN char_at(LowerLetters, UpperPlace[ch]) ELSE ch

\* s.lower(), character by character (the string is split in halves)
RECURSIVE lower_str(_)
lower_str(s) ==
    LET half == Len(s) \div 2
    IN  IF Len(s) = 0 THEN ""
        ELSE IF Len(s) = 1 THEN lower(s)
        ELSE lower_str(SubSeq(s, 1, half)) \o lower_str(SubSeq(s, half + 1, Len(s)))

\* a in b
contains(b, a) ==
    \E bb \in {b} : \E aa \in {a} :
        \E i \in 0..(Len(bb) - Len(aa)) : SubSeq(bb, i + 1, i + Len(aa)) = aa

(***************************************************************************)
(* verifier/ocr_verifier.py                                                *)
(***************************************************************************)
\* the table with a five-keyword medical category
SUPPORTING_DOCUMENT_TYPES_five ==
    [medical |->
        [keywords |-> <<"diagnosis", "prescription", "treatment", "hospital", "doctor">>,
         score_weight |-> 20],
     education |->
        [keywords |-> <<"fee", "receipt", "admission", "university", "college",
                        "semester">>,
         score_weight |-> 20],
     ngo_certificate |->
        [keywords |-> <<"registration", "government", "trust", "society",
                        "certificate", "NGO">>,
         score_weight |-> 20]]

SUPPORTING_DOCUMENT_TYPES ==
    [medical |->
        [keywords |-> <<"diagnosis", "prescription", "treatment", "hospital",
                        "doctor", "medical">>,
         score_weight |-> 20],
     education |->
        [keywords |-> <<"fee", "receipt", "admission", "university", "college",
                        "semester">>,
         score_weight |-> 20],
     ngo_certificate |->
        [keywords |-> <<"registration", "government", "trust", "society",
                        "certificate", "NGO">>,
         score_weight |-> 20]]

\* extract_text: the OCR text, lower-cased; "" when a call raises.
\* ocr is [raises, pdf, pages]: pdf is is_pdf(file_path); pages holds what
\* pytesseract.image_to_string gives for each page convert_from_path returns,
\* or, for an image file, for the image; raises when any of these calls raises.
\* for page in pages: full_text += image_to_string(page) + "\n"
RECURSIVE full_text(_)
full_text(pages) ==
    IF Len(pages) = 0 THEN "" ELSE Head(pages) \o "\n" \o full_text(Tail(pages))

extract_text_as_printed(ocr) ==
    IF ocr.raises THEN ""
    ELSE IF ocr.pdf THEN full_text(ocr.pages)
    ELSE ocr.pages[1]

extract_text(ocr) ==
    IF ocr.raises THEN ""
    ELSE IF ocr.pdf THEN lower_str(full_text(ocr.pages))
    ELSE lower_str(ocr.pages[1])

score_supporting_document_rounded_up(text, doc_type) ==
    IF doc_type \notin DOMAIN SUPPORTING_DOCUMENT_TYPES THEN 0
    ELSE LET keywords == SUPPORTING_DOCUMENT_TYPES[doc_type].keywords
             weight == SUPPORTING_DOCUMENT_TYPES[doc_type].score_weight
             matched == {k \in 1..Len(keywords) : contains(text, lower_str(keywords[k]))}
         IN  (Cardinality(matched) * weight + Len(keywords) - 1) \div Len(keywords)

\* int((len(matched) / len(keywords)) * score_weight)
score_supporting_document(text, doc_type) ==
    IF doc_type \notin DOMAIN SUPPORTING_DOCUMENT_TYPES THEN 0
    ELSE LET keywords == SUPPORTING_DOCUMENT_TYPES[doc_type].keywords
             weight == SUPPORTING_DOCUMENT_TYPES[doc_type].score_weight
             matched == {k \in 1..Len(keywords) : contains(text, lower_str(keywords[k]))}
         IN  (Cardinality(matched) * weight) \div Len(keywords)

\* exists: os.path.exists(path)
verify_supporting_document(exists, ocr, doc_type) ==
    IF ~exists THEN 0
    ELSE IF extract_text(ocr) = "" THEN 0
    ELSE score_supporting_document(extract_text(ocr), doc_type)

(***************************************************************************)
(* verifier/engagement_score.py                                            *)
(***************************************************************************)
EngagementKeywords == <<"challenge", "achievement", "motivation", "impact", "community">>

\* kw in story, the case of the story kept
calculate_engagement_score_case_sensitive(text) ==
    LET length == Min(Max(Len(text), 100), 1000)
        keyword_hits ==
            Cardinality({k \in 1..5 : contains(text, EngagementKeywords[k])})
    IN  py_round(70 * length * 5 + 30 * keyword_hits * 1000, 5000)

\* the values round(0.7 * length_score + 0.3 * keyword_score, 2) can take
calculate_engagement_score(text) ==
    LET min_length == 100
        max_length == 1000
        n == Len(EngagementKeywords)
    IN  UNION {
          LET length == Min(Max(Len(text), min_length), max_length)
              keyword_hits ==
                  Cardinality({k \in 1..n : contains(lowered, lower_str(EngagementKeywords[k]))})
          IN  \* 100 * (0.7 * length / max_length + 0.3 * keyword_hits / n)
              py_round(70 * length * n + 30 * keyword_hits * max_length, max_length * n)
          : lowered \in {lower_str(text)}}

(***************************************************************************)
(* verifier/emotion_detector.py                                            *)
(***************************************************************************)
\* sentiment is [raises, label, score]: the sentiment pipeline's first result,
\* its score in ten-thousandths.  The values round(score, 2) can take.
detect_emotion(sentiment) ==
    IF sentiment.raises THEN {0} ELSE py_round(sentiment.score, 100)

(***************************************************************************)
(* verifier/face_verifier.py: verify_aadhaar_offline                       *)
(***************************************************************************)
HexChars == Chars("0123456789abcdef")
\* the ASCII whitespace bytes.fromhex skips: space, \t, \n, \v, \f, \r
VerticalTab == ""
Whitespace == {" ", "\t", "\n", VerticalTab, "\f", "\r"}

\* bytes.fromhex(s): whitespace is skipped before each byte, the two hex digits
\* of a byte are adjacent; the bytes are written as lower-case hex digits.
RECURSIVE fromhex(_)
fromhex(s) ==
    IF Len(s) = 0 THEN [raises |-> FALSE, bytes |-> ""]
    ELSE IF char_at(s, 1) \in Whitespace THEN fromhex(SubSeq(s, 2, Len(s)))
    ELSE IF Len(s) < 2 THEN [raises |-> TRUE, bytes |-> ""]
    ELSE LET hi == lower(char_at(s, 1))
             lo == lower(char_at(s, 2))
             rest == fromhex(SubSeq(s, 3, Len(s)))
         IN  IF hi \notin HexChars \/ lo \notin HexChars \/ rest.raises
             THEN [raises |-> TRUE, bytes |-> ""]
             ELSE [raises |-> FALSE, bytes |-> hi \o lo \o rest.bytes]

public_key_verify_skipped(key, signature_bytes, data) == TRUE

\* public_key.verify(signature, data, PKCS1v15, SHA256): passes exactly for the
\* signature the issuer's key made over this data; key is [loads, signed], with
\* signed the (signature bytes, data) pair the issuer signed.
public_key_verify(key, signature_bytes, data) ==
    key.signed.bytes = signature_bytes /\ key.signed.data = data

\* cap: what the file system and the libraries do during this call
\*   xml_exists, key_exists : os.path.exists of the two paths
\*   parses    : ET.parse succeeds
\*   signature, data : root.attrib.get(...), None when the attribute is absent
\*   key       : [loads, signed]  load_pem_public_key on the key file
\* An exception anywhere after the existence test is caught: False.
verify_aadhaar_offline(cap) ==
    IF ~cap.xml_exists \/ ~cap.key_exists THEN FALSE
    ELSE IF ~cap.parses THEN FALSE
    ELSE IF not_value(cap.signature) \/ not_value(cap.data) THEN FALSE
    ELSE IF ~cap.key.loads THEN FALSE
    ELSE IF fromhex(text_of(cap.signature)).raises THEN FALSE
    ELSE public_key_verify(cap.key, fromhex(text_of(cap.signature)).bytes,
                           text_of(cap.data))

(***************************************************************************)
(* verifier/face_verifier.py: validate_pan, liveness_check, verify_face    *)
(***************************************************************************)
\* re.match in place of re.fullmatch
validate_pan_prefix(pan_number) ==
    /\ Len(pan_number) >= 10
    /\ \A i \in 1..5 : char_at(pan_number, i) \in UpperChars
    /\ \A i \in 6..9 : char_at(pan_number, i) \in AsciiDigitChars
    /\ char_at(pan_number, 10) \in UpperChars

\* re.fullmatch(r"[A-Z]{5}[0-9]{4}[A-Z]", pan_number)
validate_pan(pan_number) ==
    /\ Len(pan_number) = 10
    /\ \A i \in 1..5 : char_at(pan_number, i) \in UpperChars
    /\ \A i \in 6..9 : char_at(pan_number, i) \in AsciiDigitChars
    /\ char_at(pan_number, 10) \in UpperChars

liveness_check_floor_only(analyze) ==
    IF analyze.raises THEN 0 ELSE Max(analyze.face_confidence, 0)

liveness_check_unclamped(analyze) ==
    IF analyze.raises THEN 0 ELSE analyze.face_confidence

\* analyze is [raises, face_confidence]: DeepFace.analyze on the selfie
liveness_check(analyze) ==
    IF analyze.raises THEN 0 ELSE Min(Max(analyze.face_confidence, 0), 100)

face_threshold == 40

\* if id_img is None or selfie_img is None
images_not_loaded_id_only(cap) == ~cap.imread_id

images_not_loaded_selfie_only(cap) == ~cap.imread_selfie

images_not_loaded(cap) == ~cap.imread_id \/ ~cap.imread_selfie

\* 1 for match, 0.5 for near match
normalize_face_match_strict(verified, distance) ==
    IF verified THEN 100 ELSE IF distance < face_threshold + 10 THEN 50 ELSE 0

normalize_face_match(verified, distance) ==
    IF verified THEN 100 ELSE IF distance <= face_threshold + 10 THEN 50 ELSE 0

ZeroBreakdown ==
    [face_match_score |-> 0, liveness_score |-> 0, aadhaar_valid |-> FALSE,
     pan_valid |-> FALSE, total_score |-> 0]

\* cap: what the capabilities do during this call
\*   imread_id, imread_selfie : whether cv2.imread decodes the photo
\*   verify  : [raises, verified, distance]  DeepFace.verify
\*   analyze : [raises, face_confidence]     DeepFace.analyze
\*   aadhaar_exists, pan_exists : aadhaar_file_path / pan_file_path given and on disk
\*   aadhaar_ocr, pan_ocr : [raises, pdf, pages]   OCR of the two scans
\*   xml_given, key_given : aadhaar_xml_path / uidai_public_key_path supplied
\*   offline : the result of verify_aadhaar_offline
\* The set of result_breakdown records the call can return.
verify_face(cap, aadhaar_number, pan_number) ==
    IF images_not_loaded(cap) THEN {ZeroBreakdown}
    ELSE IF cap.verify.raises THEN {ZeroBreakdown}
    ELSE
    LET face_match_score == normalize_face_match(cap.verify.verified, cap.verify.distance)
        liveness == liveness_check(cap.analyze)
        basic_aadhaar_valid == validate_aadhaar_format(aadhaar_number)
        offline_verified == cap.xml_given /\ cap.key_given /\ cap.offline
        aadhaar_valid ==
            /\ basic_aadhaar_valid
            /\ (offline_verified \/ ~cap.xml_given)
            /\ (cap.aadhaar_exists => contains(extract_text(cap.aadhaar_ocr), aadhaar_number))
        pan_valid ==
            /\ validate_pan(pan_number)
            /\ (cap.pan_exists => contains(extract_text(cap.pan_ocr), pan_number))
    IN  {[face_match_score |-> face_match_score,
          liveness_score |-> liveness,
          aadhaar_valid |-> aadhaar_valid,
          pan_valid |-> pan_valid,
          total_score |-> t] :
            t \in py_round(70 * face_match_score + 30 * liveness, 100)}

(***************************************************************************)
(* verifier/story_nlp.py: StoryNLPVerifier                                 *)
(***************************************************************************)
fraud_keywords ==
    <<"guarantee returns", "double your money", "urgent investment",
      "lottery", "inheritance", "100% safe", "get rich quick">>

\* re: \w
is_word_char(ch) ==
    ch \in UpperChars \/ ch \in LowerChars \/ is_decimal(ch) \/ ch = "_"

\* re: \b between text[i] and text[i + 1] (1-based; position 0 is the start)
word_boundary(text, i) ==
    LET before == i >= 1 /\ is_word_char(char_at(text, i))
        after == i + 1 <= Len(text) /\ is_word_char(char_at(text, i + 1))
    IN  before # after

\* re.search(rf"\b{re.escape(keyword)}\b", text, re.IGNORECASE), given
\* lowered = text.lower(): ignoring case is comparing the lower-cased strings
search_word(keyword, text, lowered) ==
    \E kw \in {keyword} : \E low \in {lowered} :
        \E i \in 0..(Len(text) - Len(kw)) :
            /\ SubSeq(low, i + 1, i + Len(kw)) = kw
            /\ word_boundary(text, i)
            /\ word_boundary(text, i + Len(kw))

check_fraud_markers(text) ==
    LET lowered == lower_str(text)
        hits == {k \in 1..Len(fraud_keywords) :
                    search_word(lower_str(fraud_keywords[k]), text, lowered)}
    IN  Max(-5, 0 - Cardinality(hits))

\* nlp: what the capabilities do during one score_story call
\*   flesch    : [raises, value]          textstat.flesch_reading_ease, in hundredths
\*   zero_shot : [raises, genuine]        the "genuine" score of the zero-shot
\*                                        classifier, in ten-thousandths
\*   sentiment : [raises, label, score]   the sentiment pipeline, score in
\*                                        ten-thousandths
check_readability_unclamped(nlp) == nlp.flesch.value

\* check_readability: max(0, min(10, score / 10)), in thousandths
check_readability(nlp) == Max(0, Min(10000, nlp.flesch.value))

\* round(genuine_score * 5, 2), in hundredths
check_authenticity(nlp) == py_round(5 * nlp.zero_shot.genuine, 100)

\* str.upper()
LowerPlace == PlaceIn(LowerLetters)
upper(ch) == IF ch \in LowerChars THEN char_at(UpperLetters, LowerPlace[ch]) ELSE ch

RECURSIVE upper_str(_)
upper_str(s) ==
    IF Len(s) = 0 THEN "" ELSE upper(char_at(s, 1)) \o upper_str(SubSeq(s, 2, Len(s)))

\* round(result['score'] * 5, 2) for a POSITIVE or NEGATIVE label, else 0.0
check_emotional_appeal(nlp) ==
    IF upper_str(nlp.sentiment.label) \in {"POSITIVE", "NEGATIVE"}
    THEN py_round(5 * nlp.sentiment.score, 100)
    ELSE {0}

\* [raises, values]: no call inside score_story is guarded, so an exception of
\* any capability leaves score_story; otherwise the values
\* round(max(0, min(20, total)), 2) can take, in hundredths.
score_story(nlp, text) ==
    IF nlp.flesch.raises \/ nlp.zero_shot.raises \/ nlp.sentiment.raises
    THEN [raises |-> TRUE, values |-> {}]
    ELSE LET readability == check_readability(nlp)
             fraud_penalty == check_fraud_markers(text)
         IN  [raises |-> FALSE,
              values |-> UNION {
                  py_round(Max(0, Min(20000, readability + 10 * authenticity
                                             + 10 * emotion + 1000 * fraud_penalty)),
                           10) :
                  authenticity \in check_authenticity(nlp),
                  emotion \in check_emotional_appeal(nlp)}]

(***************************************************************************)
(* app.py: the module-level calculate_trust_score (line 42), which         *)
(* replaces the name imported from verifier.trust_score (line 13)          *)
(***************************************************************************)
\* Python values whose type the callee depends on
py_float(x) == [type |-> "float", num |-> x, str |-> ""]
py_str(t) == [type |-> "str", num |-> 0, str |-> t]

\* [raises, values]: len(story) raises TypeError unless story is a str
app_calculate_trust_score(story, face_score, doc_score, emotion_score, engagement_score, admin_adjustment) ==
    IF story.type # "str" THEN [raises |-> TRUE, values |-> {}]
    ELSE LET story_score == Min(5 * Len(story.str), 2500)
         IN  [raises |-> FALSE,
              values |-> py_round(20 * face_score.num + 20 * doc_score.num
                                  + 15 * emotion_score.num + 25 * story_score
                                  + 10 * engagement_score.num
                                  + 10 * admin_adjustment.num, 100)]

(***************************************************************************)
(* One call of verifier.trust_score.calculate_trust_score                  *)
(***************************************************************************)
\* Each input range is sampled at Samples + 1 evenly spaced points.
Samples == 4

Grid(lo, hi) == {lo + (k * (hi - lo)) \div Samples : k \in 0..Samples}

\* the declared ranges: [0,1] in hundredths, the raw 0..20 scales, [-1,1]
TrustInputs ==
    [face_score : Grid(0, 100),
     doc_score : Grid(0, 20),
     emotion_score : Grid(0, 100),
     engagement_score : Grid(0, 100),
     story_score : Grid(0, 2000) \cup {StoryNormAbove, StoryNormAbove + 1},
     admin_adjustment : Grid(-100, 100)]

NoTrustInput ==
    [face_score |-> 0, doc_score |-> 0, emotion_score |-> 0,
     engagement_score |-> 0, story_score |-> 0, admin_adjustment |-> 0]

\* Arguments outside the declared ranges: one argument of an all-zero or of an
\* all-maximal call below its minimum or above its maximum.
FullTrustInput ==
    [face_score |-> 100, doc_score |-> 20, emotion_score |-> 100,
     engagement_score |-> 100, story_score |-> 2000, admin_adjustment |-> 100]

OutsideValues ==
    [face_score |-> {-50, 600}, doc_score |-> {-1, 25}, emotion_score |-> {-50, 150},
     engagement_score |-> {-50, 150}, story_score |-> {-100, 2500},
     admin_adjustment |-> {-200, 200}]

TrustInputsOutside ==
    UNION {{[b EXCEPT ![f] = v] : v \in OutsideValues[f]} :
              b \in {NoTrustInput, FullTrustInput}, f \in DOMAIN OutsideValues}

AggIdle == [in |-> NoTrustInput, out |-> 0, returned |-> FALSE]

CallTrustScore ==
    /\ ~agg.returned
    /\ \E t \in calculate_trust_score(agg.in.face_score, I2F(agg.in.doc_score),
                                      agg.in.emotion_score, agg.in.engagement_score,
                                      agg.in.story_score, agg.in.admin_adjustment) :
           agg' = [agg EXCEPT !.out = t, !.returned = TRUE]

(***************************************************************************)
(* One call of validate_aadhaar_format                                     *)
(***************************************************************************)
\* The last FreeDigits digits of a number range over all ten digits.
FreeDigits == 3

RECURSIVE DigitStrings(_)
DigitStrings(n) ==
    IF n = 0 THEN {""}
    ELSE {t \o char_at(AsciiDigits, v) : t \in DigitStrings(n - 1), v \in 1..10}

AadhaarBases == {"234123412346", "987650912345"}

AadhaarNumbers ==
    {SubSeq(b, 1, 12 - FreeDigits) \o t : b \in AadhaarBases, t \in DigitStrings(FreeDigits)}

AadhaarIdle == [in |-> "", out |-> FALSE, returned |-> FALSE]

CallValidateAadhaar ==
    /\ ~aad.returned
    /\ aad' = [aad EXCEPT !.out = validate_aadhaar_format(aad.in), !.returned = TRUE]

(***************************************************************************)
(* One call of validate_pan                                                *)
(***************************************************************************)
PanIdle == [in |-> "", out |-> FALSE, returned |-> FALSE]

CallValidatePan ==
    /\ ~pan.returned
    /\ pan' = [pan EXCEPT !.out = validate_pan(pan.in), !.returned = TRUE]

(***************************************************************************)
(* One call of verify_aadhaar_offline                                      *)
(***************************************************************************)
IssuerSigned == [bytes |-> "a1b2", data |-> "uid-payload"]

Signatures ==
    {None}
    \cup {Str(t) : t \in {"", "None", "a1b2", "A1 B2", "a 1b2", "a1b", "zz", "a1b3",
                          "a1\tb2", "\ra1" \o VerticalTab \o "b2\f\n"}}
DataValues == {None} \cup {Str(t) : t \in {"", "uid-payload", "other-payload"}}

OfflineCaps ==
    [xml_exists : BOOLEAN, key_exists : BOOLEAN, parses : BOOLEAN,
     signature : Signatures, data : DataValues,
     key : [loads : BOOLEAN, signed : {IssuerSigned}]]

NoOfflineCap ==
    [xml_exists |-> FALSE, key_exists |-> FALSE, parses |-> FALSE,
     signature |-> None, data |-> None,
     key |-> [loads |-> FALSE, signed |-> IssuerSigned]]

OfflineIdle == [in |-> NoOfflineCap, out |-> FALSE, returned |-> FALSE]

CallVerifyOffline ==
    /\ ~off.returned
    /\ off' = [off EXCEPT !.out = verify_aadhaar_offline(off.in), !.returned = TRUE]

(***************************************************************************)
(* One call of verify_face                                                 *)
(***************************************************************************)
NoFaceInput ==
    [cap |-> [imread_id |-> FALSE, imread_selfie |-> FALSE,
              verify |-> [raises |-> TRUE, verified |-> FALSE, distance |-> 0],
              analyze |-> [raises |-> TRUE, face_confidence |-> 0],
              aadhaar_exists |-> FALSE, pan_exists |-> FALSE,
              aadhaar_ocr |-> [raises |-> TRUE, pdf |-> FALSE, pages |-> <<"">>],
              pan_ocr |-> [raises |-> TRUE, pdf |-> FALSE, pages |-> <<"">>],
              xml_given |-> FALSE, key_given |-> FALSE, offline |-> FALSE],
     aadhaar_number |-> "", pan_number |-> ""]

FaceIdle == [in |-> NoFaceInput, out |-> ZeroBreakdown, returned |-> FALSE]

CallVerifyFace ==
    /\ ~face.returned
    /\ \E result_breakdown \in verify_face(face.in.cap, face.in.aadhaar_number,
                                           face.in.pan_number) :
           face' = [face EXCEPT !.out = result_breakdown, !.returned = TRUE]

(***************************************************************************)
(* One call of verify_supporting_document, and of score_supporting_document *)
(* on the text extracted from the same file                                *)
(***************************************************************************)
NoDocInput == [exists |-> FALSE, ocr |-> [raises |-> TRUE, pdf |-> FALSE, pages |-> <<"">>], doc_type |-> ""]

DocIdle == [in |-> NoDocInput, out |-> 0, score |-> 0, returned |-> FALSE]

CallVerifyDocument ==
    /\ ~doc.returned
    /\ doc' = [doc EXCEPT
                 !.out = verify_supporting_document(doc.in.exists, doc.in.ocr,
                                                    doc.in.doc_type),
                 !.score = score_supporting_document(extract_text(doc.in.ocr),
                                                     doc.in.doc_type),
                 !.returned = TRUE]

(***************************************************************************)
(* One call of score_story, of check_fraud_markers and of                  *)
(* calculate_engagement_score                                              *)
(***************************************************************************)
NoNlp ==
    [flesch |-> [raises |-> TRUE, value |-> 0],
     zero_shot |-> [raises |-> TRUE, genuine |-> 0],
     sentiment |-> [raises |-> TRUE, label |-> "", score |-> 0]]

StoryIdle ==
    [in |-> [nlp |-> NoNlp, text |-> ""], out |-> [raises |-> FALSE, value |-> 0],
     returned |-> FALSE]

CallScoreStory ==
    /\ ~narr.returned
    /\ \E result \in {score_story(narr.in.nlp, narr.in.text)} :
          IF result.raises
          THEN narr' = [narr EXCEPT !.out = [raises |-> TRUE, value |-> 0],
                                    !.returned = TRUE]
          ELSE \E v \in result.values :
                  narr' = [narr EXCEPT !.out = [raises |-> FALSE, value |-> v],
                                       !.returned = TRUE]

FraudIdle == [in |-> "", out |-> 0, returned |-> FALSE]

CallCheckFraudMarkers ==
    /\ ~fraud.returned
    /\ fraud' = [fraud EXCEPT !.out = check_fraud_markers(fraud.in), !.returned = TRUE]

EngagementIdle == [in |-> "", out |-> 0, returned |-> FALSE]

CallEngagementScore ==
    /\ ~eng.returned
    /\ \E v \in calculate_engagement_score(eng.in) :
          eng' = [eng EXCEPT !.out = v, !.returned = TRUE]

(***************************************************************************)
(* app.py: /submit                                                         *)
(***************************************************************************)
Reqs == {1, 2}

required_fields ==
    <<"name", "story", "supporting_doc_type", "aadhaar_number", "pan_number", "user_id">>
required_files ==
    <<"id_image", "selfie_image", "supporting_doc", "aadhaar_doc", "pan_doc">>

FieldKeys == {required_fields[i] : i \in 1..Len(required_fields)}
FileKeys == {required_files[i] : i \in 1..Len(required_files)}

\* request.form.get(k) is a str or None; request.files.get(k) is a FileStorage
\* (false when its filename is empty) or None.
NoFile == [given |-> FALSE, filename |-> "", size |-> 0]

\* not file_obj
not_file(file_obj) == ~file_obj.given \/ file_obj.filename = ""

\* lines 59-81: the list missing_fields, fields first, then files
missing_fields(sub) ==
    SelectSeq(required_fields, LAMBDA k : not_value(sub.form[k]))
    \o SelectSeq(required_files, LAMBDA k : not_file(sub.files[k]))

\* os.path.join(a, b) on POSIX: an absolute b replaces a
os_path_join(a, b) ==
    IF Len(b) > 0 /\ char_at(b, 1) = "/" THEN b
    ELSE IF Len(a) = 0 \/ char_at(a, Len(a)) = "/" THEN a \o b
    ELSE a \o "/" \o b

\* line 89
upload_dir == "temp"

\* lines 92-96
upload_path(sub, key) ==
    os_path_join(upload_dir,
        text_of(sub.form["name"]) \o "_" \o
        (CASE key = "id_image" -> "id.jpg"
           [] key = "selfie_image" -> "selfie.jpg"
           [] key = "supporting_doc" -> text_of(sub.form["supporting_doc_type"]) \o ".pdf"
           [] key = "aadhaar_doc" -> "aadhaar.jpg"
           [] key = "pan_doc" -> "pan.jpg"))

(***************************************************************************)
(* The file system.  A directory or a file is the list of names that leads *)
(* to it from the root.  fs.cwd is the work directory of the server,       *)
(* fs.dirs the directories that exist (the server may write in each),      *)
(* fs.files the files with what they hold: a list of stretches             *)
(* [owner, len], len bytes of the upload of request owner (owner 0: a hole *)
(* that reads as zeros).  There are no links, and names differ by case.    *)
(***************************************************************************)
\* the parts of a path between its "/" separators
RECURSIVE components(_)
components(path) ==
    IF \A i \in 1..Len(path) : char_at(path, i) # "/" THEN <<path>>
    ELSE LET i == CHOOSE j \in 1..Len(path) :
                      /\ char_at(path, j) = "/"
                      /\ \A k \in 1..(j - 1) : char_at(path, k) # "/"
         IN  <<SubSeq(path, 1, i - 1)>> \o components(SubSeq(path, i + 1, Len(path)))

\* len(os.fsencode(s)): the file system counts bytes, and U+0663 takes two in
\* UTF-8
encoded_len(s) == Len(s) + Cardinality({i \in 1..Len(s) : char_at(s, i) = NonAsciiThree})

\* the longest file name and the shortest path the file system refuses
\* (ENAMETOOLONG): 255 bytes, and 4096 bytes with the terminating NUL
NAME_MAX == 255
PATH_MAX == 4096

\* the directory one component leads to from a directory: "" and "." stay, ".."
\* goes up (the root is its own parent), a name goes down
step_into(dir, c) ==
    IF c = "" \/ c = "." THEN dir
    ELSE IF c # ".." THEN Append(dir, c)
    ELSE IF Len(dir) = 0 THEN dir
    ELSE SubSeq(dir, 1, Len(dir) - 1)

\* The directory the leading components of a path lead to, taken one after the
\* other as the system resolves them; found is false once a component is too
\* long or leads to no directory, whatever follows it.
RECURSIVE walk(_, _, _)
walk(names, dir, found) ==
    IF Len(names) = 0 THEN [dir |-> dir, found |-> found]
    ELSE walk(Tail(names), step_into(dir, Head(names)),
              /\ found
              /\ encoded_len(Head(names)) <= NAME_MAX
              /\ step_into(dir, Head(names)) \in fs.dirs)

\* the file a path names, and whether the system gets to it: one file for
\* every path that leads there, relative or absolute
resolve(path) ==
    IF encoded_len(path) >= PATH_MAX THEN [found |-> FALSE, file |-> <<>>]
    ELSE LET parts == components(path)
             w == walk(SubSeq(parts, 1, Len(parts) - 1),
                       IF char_at(path, 1) = "/" THEN <<>> ELSE fs.cwd, TRUE)
         IN  [found |-> w.found /\ encoded_len(parts[Len(parts)]) <= NAME_MAX,
              file |-> Append(w.dir, parts[Len(parts)])]

file_of(path) == resolve(path).file

\* FileStorage.save(dst) begins with open(dst, "wb"): whether it raises.  It
\* raises for a path of PATH_MAX bytes or more, for a name of more than
\* NAME_MAX bytes, for a directory on the way that does not exist and for a
\* path that names a directory.
save_raises(path) == ~resolve(path).found \/ file_of(path) \in fs.dirs

\* os.path.exists(path)
exists(path) ==
    /\ resolve(path).found
    /\ file_of(path) \in DOMAIN fs.files \cup fs.dirs

\* os.makedirs(upload_dir, exist_ok=True), line 90: the directory it makes sure
\* of, and whether it raises (a file of that name is in the way)
made_dir == Append(fs.cwd, upload_dir)
makedirs_raises == made_dir \in DOMAIN fs.files

\* the buffer_size of FileStorage.save: copyfileobj reads and writes the upload
\* in pieces of at most this many bytes
BufferSize == 16384

min(a, b) == IF a <= b THEN a ELSE b

\* the length of what a file holds
RECURSIVE size_of(_)
size_of(data) == IF Len(data) = 0 THEN 0 ELSE data[1].len + size_of(Tail(data))

\* the first n bytes of what a file holds, and what follows them
RECURSIVE take(_, _)
take(data, n) ==
    IF n <= 0 \/ Len(data) = 0 THEN <<>>
    ELSE IF data[1].len <= n THEN <<data[1]>> \o take(Tail(data), n - data[1].len)
    ELSE <<[owner |-> data[1].owner, len |-> n]>>

RECURSIVE drop(_, _)
drop(data, n) ==
    IF n <= 0 \/ Len(data) = 0 THEN data
    ELSE IF data[1].len <= n THEN drop(Tail(data), n - data[1].len)
    ELSE <<[owner |-> data[1].owner, len |-> data[1].len - n]>> \o Tail(data)

\* neighbouring stretches of one owner are one stretch
RECURSIVE merged(_)
merged(data) ==
    IF Len(data) <= 1 THEN data
    ELSE IF data[1].owner = data[2].owner
         THEN merged(<<[owner |-> data[1].owner, len |-> data[1].len + data[2].len]>>
                     \o Tail(Tail(data)))
    ELSE <<data[1]>> \o merged(Tail(data))

\* write(2) of n > 0 bytes of request r's upload at an offset of the file: what
\* was there before and after stays, a gap before the offset is a hole
written(data, offset, r, n) ==
    merged(take(data, offset)
           \o (IF size_of(data) < offset
               THEN <<[owner |-> 0, len |-> offset - size_of(data)]>> ELSE <<>>)
           \o <<[owner |-> r, len |-> n]>>
           \o drop(data, offset + n))

\* the requests whose bytes a file holds
owners(data) == {data[i].owner : i \in 1..Len(data)} \ {0}

\* the requests whose bytes a read of path returns (none: no such file, or a
\* file that holds no upload's bytes)
content(path) ==
    IF resolve(path).found /\ file_of(path) \in DOMAIN fs.files
    THEN owners(fs.files[file_of(path)])
    ELSE {}

\* face_score >= 5
face_match_of(face_score) == face_score >= I2F(5)

\* doc_score >= 10
document_verified_strict(doc_score) == doc_score > 10

document_verified_of(doc_score) == doc_score >= 10

NoLocals ==
    [face_score |-> 0, face_match |-> FALSE, doc_score |-> 0,
     document_verified |-> FALSE, emotion_score |-> 0, engagement_score |-> 0,
     story_score |-> 0, cap |-> NoFaceInput.cap, offset |-> 0]

NoResponse ==
    [status |-> 0, missing |-> <<>>, trust_score |-> 0, face_match |-> FALSE,
     document_verified |-> FALSE]

NoSubmission ==
    [form |-> [k \in FieldKeys |-> None], files |-> [k \in FileKeys |-> NoFile]]

\* the except branch of submit (lines 173-175): the locals are gone
Respond500(r) ==
    /\ response' = [response EXCEPT ![r] = [NoResponse EXCEPT !.status = 500]]
    /\ locals' = [locals EXCEPT ![r] = NoLocals]
    /\ pc' = [pc EXCEPT ![r] = "done"]

(***************************************************************************)
(* The submissions and capability outcomes the requests draw from          *)
(***************************************************************************)
\* s * n
RECURSIVE repeat(_, _)
repeat(s, n) ==
    IF n = 0 THEN ""
    ELSE IF n % 2 = 1 THEN s \o repeat(s, n - 1)
    ELSE repeat(s \o s, n \div 2)

\* The server runs in /srv/w.  The upload directory is there from an earlier
\* run, with one directory that was made in it by hand.
WorkDir == <<"srv", "w">>
HostDirs ==
    {<<>>, <<"srv">>, WorkDir, Append(WorkDir, "temp"), WorkDir \o <<"temp", "old">>}

\* Names whose uploads cannot be saved: too long for a file name in characters,
\* too long in bytes only, a path too long through "." alone, a directory that
\* does not exist below temp or on a way out of temp and back.  Names that
\* are other spellings of asha's files, through the work directory and from
\* the root; and a name in the directory made by hand.
LongName == repeat("n", NAME_MAX + 5)
WideName == repeat(NonAsciiThree, 130)
DottedName == repeat("./", PATH_MAX \div 2) \o "asha"
Unsaved == {"a/b", LongName, WideName, DottedName, "../zz/../temp/asha"}
Aliases == {"../../w/temp/./asha", "/srv/w/temp/asha"}
Names == {"asha", "ravi", "old/b"} \cup Unsaved \cup Aliases
DocTypes == {"medical", "rent", "rent/2024"}
SampleStory ==
    "Our community lost its school: a challenge."
SampleAadhaar == "234123410008"
SamplePan == "ABCDE1234F"

\* The length of an upload, in bytes: an ID photo takes two writes, every
\* other upload one
PhotoSize == 20000
UploadSize == 2000

Complete(name, doc_type) ==
    [form |-> [k \in FieldKeys |->
                 CASE k = "name" -> Str(name)
                   [] k = "story" -> Str(SampleStory)
                   [] k = "supporting_doc_type" -> Str(doc_type)
                   [] k = "aadhaar_number" -> Str(SampleAadhaar)
                   [] k = "pan_number" -> Str(SamplePan)
                   [] k = "user_id" -> Str("u1")],
     files |-> [k \in FileKeys |->
                 [given |-> TRUE, filename |-> k \o ".bin",
                  size |-> IF k = "id_image" THEN PhotoSize ELSE UploadSize]]]

\* sub with the keys of K absent (None / no file) or empty ("" / empty filename)
Blank(sub, K, mode) ==
    [form |-> [k \in FieldKeys |->
                 IF k \in K THEN (IF mode = "absent" THEN None ELSE Str(""))
                 ELSE sub.form[k]],
     files |-> [k \in FileKeys |->
                 IF k \in K THEN (IF mode = "absent" THEN NoFile
                                  ELSE [given |-> TRUE, filename |-> "", size |-> 0])
                 ELSE sub.files[k]]]

BlankSets ==
    {{k} : k \in FieldKeys \cup FileKeys}
    \cup {FileKeys, FieldKeys \cup FileKeys, {"story", "pan_doc"}}

\* Requests are interchangeable: request 1 sends the (asha, medical) submission,
\* one of its incomplete variants, a complete submission whose first upload
\* cannot be saved, or one that names asha's photos another way or a directory
\* made by hand, with a document type that has a separator, so that the two
\* photos are saved and the document is not; request 2 sends the same name and
\* document type with an ID photo of exactly one buffer and a PAN document of
\* no bytes, another name with a selfie of no bytes and a document type that
\* has no keyword list, or a submission without files whose user_id is the
\* text None.
Submissions(r) ==
    IF r = 1
    THEN {Complete("asha", "medical")}
         \cup {Complete(name, "medical") : name \in Unsaved}
         \cup {Complete(name, "rent/2024") : name \in Aliases \cup {"old/b"}}
         \cup {Blank(Complete("asha", "medical"), K, mode) :
                 K \in BlankSets, mode \in {"absent", "empty"}}
    ELSE {[Complete("asha", "medical") EXCEPT !.files["id_image"].size = BufferSize,
                                              !.files["pan_doc"].size = 0],
          [Complete("ravi", "rent") EXCEPT !.files["selfie_image"].size = 0]}
         \cup {Blank([Complete("ravi", "medical") EXCEPT !.form["user_id"] = Str("None")],
                     FileKeys, "absent")}

FaceVerifyOutcomes ==
    {[raises |-> TRUE, verified |-> FALSE, distance |-> 0],
     [raises |-> FALSE, verified |-> TRUE, distance |-> 20],
     [raises |-> FALSE, verified |-> FALSE, distance |-> 45]}

AnalyzeOutcomes == {[raises |-> FALSE, face_confidence |-> 90]}

AadhaarOcrOutcomes == {[raises |-> FALSE, pdf |-> FALSE, pages |-> <<"Govt of India 2341 2341 0008">>]}
PanOcrOutcomes == {[raises |-> FALSE, pdf |-> FALSE, pages |-> <<"INCOME TAX DEPARTMENT ABCDE1234F">>]}

\* the supporting document is saved as <name>_<type>.pdf: the PDF branch
DocOcrOutcomes ==
    {[raises |-> TRUE, pdf |-> TRUE, pages |-> <<>>],
     [raises |-> FALSE, pdf |-> TRUE, pages |-> <<"Diagnosis and treatment">>],
     [raises |-> FALSE, pdf |-> TRUE, pages |-> <<"City HOSPITAL", "doctor's prescription">>]}

SentimentOutcomes == {[raises |-> FALSE, label |-> "NEGATIVE", score |-> 9987]}

NlpOutcomes ==
    {[flesch |-> [raises |-> FALSE, value |-> 6532],
      zero_shot |-> [raises |-> z, genuine |-> 8000],
      sentiment |-> [raises |-> FALSE, label |-> "NEGATIVE", score |-> 9987]] :
        z \in BOOLEAN}

FaceCaps ==
    [imread_id : BOOLEAN, imread_selfie : BOOLEAN,
     verify : FaceVerifyOutcomes, analyze : AnalyzeOutcomes,
     aadhaar_exists : {TRUE}, pan_exists : {TRUE},
     aadhaar_ocr : AadhaarOcrOutcomes, pan_ocr : PanOcrOutcomes,
     xml_given : {FALSE}, key_given : {FALSE}, offline : {FALSE}]

(***************************************************************************)
(* /submit, step by step.  Two requests are served at once (app.run with   *)
(* the threaded development server); a step is one call of the handler.    *)
(***************************************************************************)
SaveOrder == <<"id_image", "selfie_image", "supporting_doc", "aadhaar_doc", "pan_doc">>

\* lines 57-90: read the form and the files, reject an incomplete submission,
\* make sure of the upload directory
Receive(r) ==
    /\ pc[r] = "idle"
    /\ \E sub \in Submissions(r) :
        /\ form' = [form EXCEPT ![r] = sub]
        /\ IF Len(missing_fields(sub)) > 0
           THEN /\ response' = [response EXCEPT ![r] =
                        [NoResponse EXCEPT !.status = 400,
                                           !.missing = missing_fields(sub)]]
                /\ pc' = [pc EXCEPT ![r] = "done"]
                /\ UNCHANGED <<locals, fs>>
           ELSE IF makedirs_raises
           THEN /\ Respond500(r)
                /\ UNCHANGED fs
           ELSE /\ fs' = [fs EXCEPT !.dirs = @ \cup {made_dir}]
                /\ pc' = [pc EXCEPT ![r] = "save_1"]
                /\ UNCHANGED <<locals, response>>
    /\ UNCHANGED <<store, reads, calls, callVars>>

SaveStep(r) ==
    CHOOSE i \in 1..Len(SaveOrder) : pc[r] \in {"save_" \o ToString(i), "copy_" \o ToString(i)}

\* lines 98-102, one required_files[key].save(path), first part: open(dst, "wb")
\* makes the file or empties it; when it raises nothing is written, the saves
\* after it are not made and the except branch answers
SaveOpen(r) ==
    /\ \E i \in 1..Len(SaveOrder) : pc[r] = "save_" \o ToString(i)
    /\ \E path \in {upload_path(form[r], SaveOrder[SaveStep(r)])} :
          IF save_raises(path)
          THEN /\ Respond500(r)
               /\ UNCHANGED fs
          ELSE /\ \E file \in {file_of(path)} :
                     fs' = [fs EXCEPT !.files =
                              [f \in DOMAIN fs.files \cup {file} |->
                                 IF f = file THEN <<>> ELSE fs.files[f]]]
               /\ pc' = [pc EXCEPT ![r] = "copy_" \o ToString(SaveStep(r))]
               /\ UNCHANGED <<locals, response>>
    /\ calls' = [calls EXCEPT ![r] = @ \cup {"save"}]
    /\ UNCHANGED <<form, store, reads, callVars>>

\* the rest of save: copyfileobj(self.stream, dst, buffer_size) and close.  One
\* step is one write of a piece at the position this request has reached in the
\* file, whatever other requests have done to the file since the open; after
\* the last piece (or with nothing to write) the file is closed.
SaveCopy(r) ==
    /\ \E i \in 1..Len(SaveOrder) : pc[r] = "copy_" \o ToString(i)
    /\ \E key \in {SaveOrder[SaveStep(r)]} :
       \E file \in {file_of(upload_path(form[r], key))} :
       \E n \in {min(BufferSize, form[r].files[key].size - locals[r].offset)} :
          /\ fs' = IF n = 0 THEN fs
                   ELSE [fs EXCEPT !.files[file] = written(@, locals[r].offset, r, n)]
          /\ IF locals[r].offset + n = form[r].files[key].size
             THEN /\ locals' = [locals EXCEPT ![r].offset = 0]
                  /\ pc' = [pc EXCEPT ![r] =
                               IF SaveStep(r) < Len(SaveOrder)
                               THEN "save_" \o ToString(SaveStep(r) + 1)
                               ELSE "verify_face"]
             ELSE /\ locals' = [locals EXCEPT ![r].offset = @ + n]
                  /\ UNCHANGED pc
    /\ UNCHANGED <<form, store, response, reads, calls, callVars>>

\* verify_face (app.py lines 107-114, face_verifier.py lines 119-221) reads the
\* uploads one after the other, with inference between the reads and no lock:
\* each read is a step.  locals[r].cap holds what the capabilities have done so
\* far in the call; reads[r] gathers the requests whose bytes were read.
Read(r, path) == reads' = [reads EXCEPT ![r] = @ \cup content(path)]

\* return result_breakdown, then app.py lines 113-114
ReturnFromFace(r, cap) ==
    /\ \E face_result \in verify_face(cap, text_of(form[r].form["aadhaar_number"]),
                                      text_of(form[r].form["pan_number"])) :
          locals' = [locals EXCEPT
                       ![r].face_score = face_result.total_score,
                       ![r].face_match = face_match_of(face_result.total_score),
                       ![r].cap = NoFaceInput.cap]
    /\ pc' = [pc EXCEPT ![r] = "verify_doc"]

\* face_verifier.py line 140: id_img = cv2.imread(id_img_path)
FaceImreadId(r) ==
    /\ pc[r] = "verify_face"
    /\ Read(r, upload_path(form[r], "id_image"))
    /\ \E decoded \in {c.imread_id : c \in FaceCaps} :
          locals' = [locals EXCEPT ![r].cap.imread_id = decoded]
    /\ calls' = [calls EXCEPT ![r] = @ \cup {"verify_face"}]
    /\ pc' = [pc EXCEPT ![r] = "face_imread_selfie"]
    /\ UNCHANGED <<form, fs, store, response, callVars>>

\* lines 141-144: selfie_img = cv2.imread(selfie_path); either is None: return
FaceImreadSelfie(r) ==
    /\ pc[r] = "face_imread_selfie"
    /\ Read(r, upload_path(form[r], "selfie_image"))
    /\ \E decoded \in {c.imread_selfie : c \in FaceCaps} :
          LET cap == [locals[r].cap EXCEPT !.imread_selfie = decoded]
          IN  IF images_not_loaded(cap)
              THEN ReturnFromFace(r, cap)
              ELSE /\ locals' = [locals EXCEPT ![r].cap = cap]
                   /\ pc' = [pc EXCEPT ![r] = "face_verify_id"]
    /\ UNCHANGED <<form, fs, store, response, calls, callVars>>

\* lines 146-152: DeepFace.verify loads img1_path; it may raise on it (no face
\* detected) before it loads img2_path
FaceVerifyId(r) ==
    /\ pc[r] = "face_verify_id"
    /\ Read(r, upload_path(form[r], "id_image"))
    /\ \/ /\ pc' = [pc EXCEPT ![r] = "face_verify_selfie"]
          /\ UNCHANGED locals
       \/ \E v \in {o \in FaceVerifyOutcomes : o.raises} :
             ReturnFromFace(r, [locals[r].cap EXCEPT !.verify = v])
    /\ UNCHANGED <<form, fs, store, response, calls, callVars>>

\* lines 146-172: DeepFace.verify loads img2_path and returns or raises
FaceVerifySelfie(r) ==
    /\ pc[r] = "face_verify_selfie"
    /\ Read(r, upload_path(form[r], "selfie_image"))
    /\ \E v \in FaceVerifyOutcomes :
          LET cap == [locals[r].cap EXCEPT !.verify = v]
          IN  IF v.raises
              THEN ReturnFromFace(r, cap)
              ELSE /\ locals' = [locals EXCEPT ![r].cap = cap]
                   /\ pc' = [pc EXCEPT ![r] = "face_analyze"]
    /\ UNCHANGED <<form, fs, store, response, calls, callVars>>

\* line 170: liveness_check(selfie_path), DeepFace.analyze on the selfie
FaceAnalyze(r) ==
    /\ pc[r] = "face_analyze"
    /\ Read(r, upload_path(form[r], "selfie_image"))
    /\ \E a \in AnalyzeOutcomes :
          locals' = [locals EXCEPT ![r].cap.analyze = a]
    /\ pc' = [pc EXCEPT ![r] = "face_aadhaar"]
    /\ UNCHANGED <<form, fs, store, response, calls, callVars>>

\* lines 174-189: the Aadhaar scan is read only for a number of valid format
\* (no Aadhaar XML is passed by /submit) whose scan is on disk
FaceAadhaar(r) ==
    /\ pc[r] = "face_aadhaar"
    /\ LET aadhaar_path == upload_path(form[r], "aadhaar_doc")
       IN  IF /\ validate_aadhaar_format(text_of(form[r].form["aadhaar_number"]))
              /\ exists(aadhaar_path)
           THEN /\ Read(r, aadhaar_path)
                /\ \E ocr \in AadhaarOcrOutcomes :
                      locals' = [locals EXCEPT ![r].cap.aadhaar_exists = TRUE,
                                               ![r].cap.aadhaar_ocr = ocr]
           ELSE /\ locals' = [locals EXCEPT
                                ![r].cap.aadhaar_exists = exists(aadhaar_path)]
                /\ UNCHANGED reads
    /\ pc' = [pc EXCEPT ![r] = "face_pan"]
    /\ UNCHANGED <<form, fs, store, response, calls, callVars>>

\* lines 191-212: the PAN scan is read only for a well-formed number whose scan
\* is on disk; then total_score and return
FacePan(r) ==
    /\ pc[r] = "face_pan"
    /\ LET pan_path == upload_path(form[r], "pan_doc")
       IN  IF validate_pan(text_of(form[r].form["pan_number"])) /\ exists(pan_path)
           THEN /\ Read(r, pan_path)
                /\ \E ocr \in PanOcrOutcomes :
                      ReturnFromFace(r, [locals[r].cap EXCEPT !.pan_exists = TRUE,
                                                              !.pan_ocr = ocr])
           ELSE /\ ReturnFromFace(r, [locals[r].cap EXCEPT
                                         !.pan_exists = exists(pan_path)])
                /\ UNCHANGED reads
    /\ UNCHANGED <<form, fs, store, response, calls, callVars>>

\* lines 116-117
VerifyDoc(r) ==
    /\ pc[r] = "verify_doc"
    /\ LET doc_path == upload_path(form[r], "supporting_doc")
       IN  /\ Read(r, doc_path)
           /\ \E ocr \in DocOcrOutcomes :
                LET doc_score == verify_supporting_document(
                                     exists(doc_path), ocr,
                                     text_of(form[r].form["supporting_doc_type"]))
                IN  locals' = [locals EXCEPT
                                 ![r].doc_score = doc_score,
                                 ![r].document_verified = document_verified_of(doc_score)]
    /\ calls' = [calls EXCEPT ![r] = @ \cup {"verify_supporting_document"}]
    /\ pc' = [pc EXCEPT ![r] = "emotion"]
    /\ UNCHANGED <<form, fs, store, response, callVars>>

\* line 121
DetectEmotion(r) ==
    /\ pc[r] = "emotion"
    /\ \E sentiment \in SentimentOutcomes : \E e \in detect_emotion(sentiment) :
          locals' = [locals EXCEPT ![r].emotion_score = e]
    /\ calls' = [calls EXCEPT ![r] = @ \cup {"detect_emotion"}]
    /\ pc' = [pc EXCEPT ![r] = "engagement"]
    /\ UNCHANGED <<form, fs, store, response, reads, callVars>>

\* line 124
Engagement(r) ==
    /\ pc[r] = "engagement"
    /\ \E e \in calculate_engagement_score(text_of(form[r].form["story"])) :
          locals' = [locals EXCEPT ![r].engagement_score = e]
    /\ calls' = [calls EXCEPT ![r] = @ \cup {"calculate_engagement_score"}]
    /\ pc' = [pc EXCEPT ![r] = "story"]
    /\ UNCHANGED <<form, fs, store, response, reads, callVars>>

\* line 127, and lines 173-175 when score_story raises
ScoreStory(r) ==
    /\ pc[r] = "story"
    /\ calls' = [calls EXCEPT ![r] = @ \cup {"score_story"}]
    /\ \E nlp \in NlpOutcomes :
         LET res == score_story(nlp, text_of(form[r].form["story"]))
         IN  IF res.raises
             THEN Respond500(r)
             ELSE /\ \E v \in res.values :
                        locals' = [locals EXCEPT ![r].story_score = v]
                  /\ pc' = [pc EXCEPT ![r] = "aggregate"]
                  /\ UNCHANGED response
    /\ UNCHANGED <<form, fs, store, reads, callVars>>

\* lines 130-175: the aggregator call, the record, the response
Aggregate(r) ==
    /\ pc[r] = "aggregate"
    /\ calls' = [calls EXCEPT ![r] = @ \cup {"calculate_trust_score"}]
    /\ LET admin_adjustment == 0
           l == locals[r]
           res == app_calculate_trust_score(
                      py_float(l.face_score), py_float(I2F(l.doc_score)),
                      py_float(l.emotion_score), py_float(l.engagement_score),
                      py_float(l.story_score), py_float(admin_adjustment))
       IN  IF res.raises
           THEN Respond500(r) /\ UNCHANGED store
           ELSE \E trust_score \in res.values :
                  /\ store' = Append(store,
                        [request |-> r,
                         user_id |-> text_of(form[r].form["user_id"]),
                         name |-> text_of(form[r].form["name"]),
                         trust_score |-> trust_score,
                         face_match |-> l.face_match,
                         document_verified |-> l.document_verified,
                         supporting_doc_score |-> l.doc_score])
                  /\ response' = [response EXCEPT ![r] =
                        [NoResponse EXCEPT !.status = 200,
                                           !.trust_score = trust_score,
                                           !.face_match = l.face_match,
                                           !.document_verified = l.document_verified]]
                  /\ locals' = [locals EXCEPT ![r] = NoLocals]
                  /\ pc' = [pc EXCEPT ![r] = "done"]
    /\ UNCHANGED <<form, fs, reads, callVars>>

(***************************************************************************)
(* The Verhoeff scheme as published, from the dihedral group D5 and the    *)
(* permutation (1 5 8 9 4 2 7 0)(3 6), with no lookup table: what the      *)
(* tables of verhoeff_checksum are compared with.                          *)
(***************************************************************************)
\* the product j * k in D5: 0..4 are the rotations, 5..9 the reflections
D5(j, k) ==
    IF j < 5 /\ k < 5 THEN (j + k) % 5
    ELSE IF j < 5 THEN 5 + ((j + (k - 5)) % 5)
    ELSE IF k < 5 THEN 5 + (((j - 5) - k) % 5)
    ELSE ((j - 5) - (k - 5)) % 5

Sigma == <<1, 5, 7, 6, 2, 8, 3, 0, 9, 4>>

\* Sigma applied i times to n
RECURSIVE SigmaPower(_, _)
SigmaPower(i, n) == IF i = 0 THEN n ELSE Sigma[SigmaPower(i - 1, n) + 1]

\* the value of a decimal digit: "0".."9", or the non-ASCII digit three
DecimalValue(ch) ==
    CASE ch = "0" -> 0 [] ch = "1" -> 1 [] ch = "2" -> 2 [] ch = "3" -> 3
      [] ch = "4" -> 4 [] ch = "5" -> 5 [] ch = "6" -> 6 [] ch = "7" -> 7
      [] ch = "8" -> 8 [] ch = "9" -> 9 [] ch = NonAsciiThree -> 3

IsDecimalDigit(ch) ==
    ch \in {"0", "1", "2", "3", "4", "5", "6", "7", "8", "9", NonAsciiThree}

IsDecimalString(s) == \A i \in 1..Len(s) : IsDecimalDigit(char_at(s, i))

\* the check value of a decimal string, its digits taken from the right
RECURSIVE VerhoeffFrom(_, _, _)
VerhoeffFrom(s, i, c) ==
    IF i = Len(s) THEN c
    ELSE VerhoeffFrom(s, i + 1,
                      D5(c, SigmaPower(i, DecimalValue(char_at(s, Len(s) - i)))))

VerhoeffValid(s) == VerhoeffFrom(s, 0, 0) = 0

(***************************************************************************)
(* The strings validate_aadhaar_format is called with: the numbers, and    *)
(* every checksum-valid number cut short, extended, or with one character  *)
(* replaced                                                                *)
(***************************************************************************)
ExtraChars == {"0", "7", "a", " ", "\n"}
ReplacementChars == {"a", "-", NonAsciiThree}

Damaged(s) ==
    {SubSeq(s, 1, k) : k \in 0..(Len(s) - 1)}
    \cup {s \o c : c \in ExtraChars}
    \cup {c \o s : c \in ExtraChars}
    \cup {SubSeq(s, 1, i - 1) \o c \o SubSeq(s, i + 1, Len(s)) :
            i \in 1..Len(s), c \in ReplacementChars}

AadhaarInputs(numbers) ==
    numbers \cup UNION {Damaged(s) : s \in {n \in numbers : VerhoeffValid(n)}}

(***************************************************************************)
(* Specifications                                                          *)
(***************************************************************************)
SubmitIdle ==
    /\ pc = [r \in Reqs |-> "idle"]
    /\ form = [r \in Reqs |-> NoSubmission]
    /\ locals = [r \in Reqs |-> NoLocals]
    /\ fs = [cwd |-> WorkDir, dirs |-> HostDirs, files |-> [f \in {} |-> <<>>]]
    /\ store = <<>>
    /\ response = [r \in Reqs |-> NoResponse]
    /\ reads = [r \in Reqs |-> {}]
    /\ calls = [r \in Reqs |-> {}]

\* the server with no request received yet
Init ==
    /\ SubmitIdle
    /\ narr = StoryIdle
    /\ fraud = FraudIdle
    /\ eng = EngagementIdle
    /\ agg = AggIdle
    /\ aad = AadhaarIdle
    /\ pan = PanIdle
    /\ off = OfflineIdle
    /\ face = FaceIdle
    /\ doc = DocIdle

Next ==
    \E r \in Reqs :
        \/ Receive(r)
        \/ SaveOpen(r)
        \/ SaveCopy(r)
        \/ FaceImreadId(r)
        \/ FaceImreadSelfie(r)
        \/ FaceVerifyId(r)
        \/ FaceVerifySelfie(r)
        \/ FaceAnalyze(r)
        \/ FaceAadhaar(r)
        \/ FacePan(r)
        \/ VerifyDoc(r)
        \/ DetectEmotion(r)
        \/ Engagement(r)
        \/ ScoreStory(r)
        \/ Aggregate(r)

Spec == Init /\ [][Next]_vars

\* calculate_trust_score called once on each sampled input
InitTrust ==
    /\ SubmitIdle
    /\ narr = StoryIdle
    /\ fraud = FraudIdle
    /\ eng = EngagementIdle
    /\ aad = AadhaarIdle
    /\ pan = PanIdle
    /\ off = OfflineIdle
    /\ face = FaceIdle
    /\ doc = DocIdle
    /\ \E in \in TrustInputs \cup TrustInputsOutside :
          agg = [in |-> in, out |-> 0, returned |-> FALSE]

NextTrust == CallTrustScore /\ UNCHANGED <<aad, pan, off, face, doc, submitVars, textVars>>

SpecTrust == InitTrust /\ [][NextTrust]_vars

\* validate_aadhaar_format called once on each input string
InitAadhaar ==
    /\ SubmitIdle
    /\ narr = StoryIdle
    /\ fraud = FraudIdle
    /\ eng = EngagementIdle
    /\ agg = AggIdle
    /\ pan = PanIdle
    /\ off = OfflineIdle
    /\ face = FaceIdle
    /\ doc = DocIdle
    /\ \E s \in AadhaarInputs(AadhaarNumbers) : aad = [in |-> s, out |-> FALSE, returned |-> FALSE]

NextAadhaar == CallValidateAadhaar /\ UNCHANGED <<agg, pan, off, face, doc, submitVars, textVars>>

SpecAadhaar == InitAadhaar /\ [][NextAadhaar]_vars

(***************************************************************************)
(* The strings validate_pan is called with: well-formed numbers, and each  *)
(* of them cut short, extended, or with one character replaced             *)
(***************************************************************************)
PanBases == {"ABCDE1234F", "ZQXJK0907A"}
PanExtraChars == {"A", "1", "a", " ", "\n"}
PanReplacementChars == {"a", "Q", "5", "-", NonAsciiThree}

PanDamaged(s) ==
    {SubSeq(s, 1, k) : k \in 0..(Len(s) - 1)}
    \cup {s \o c : c \in PanExtraChars}
    \cup {c \o s : c \in PanExtraChars}
    \cup {SubSeq(s, 1, i - 1) \o c \o SubSeq(s, i + 1, Len(s)) :
            i \in 1..Len(s), c \in PanReplacementChars}

PanInputs == PanBases \cup {"abcde1234f"} \cup UNION {PanDamaged(s) : s \in PanBases}

\* validate_pan called once on each input string
InitPan ==
    /\ SubmitIdle
    /\ narr = StoryIdle
    /\ fraud = FraudIdle
    /\ eng = EngagementIdle
    /\ agg = AggIdle
    /\ aad = AadhaarIdle
    /\ off = OfflineIdle
    /\ face = FaceIdle
    /\ doc = DocIdle
    /\ \E s \in PanInputs : pan = [in |-> s, out |-> FALSE, returned |-> FALSE]

NextPan == CallValidatePan /\ UNCHANGED <<agg, aad, off, face, doc, submitVars, textVars>>

SpecPan == InitPan /\ [][NextPan]_vars

\* verify_aadhaar_offline called once under each behaviour of its capabilities
InitOffline ==
    /\ SubmitIdle
    /\ narr = StoryIdle
    /\ fraud = FraudIdle
    /\ eng = EngagementIdle
    /\ agg = AggIdle
    /\ aad = AadhaarIdle
    /\ pan = PanIdle
    /\ face = FaceIdle
    /\ doc = DocIdle
    /\ \E cap \in OfflineCaps : off = [in |-> cap, out |-> FALSE, returned |-> FALSE]

NextOffline == CallVerifyOffline /\ UNCHANGED <<agg, aad, pan, face, doc, submitVars, textVars>>

SpecOffline == InitOffline /\ [][NextOffline]_vars

(***************************************************************************)
(* The calls of verify_face: both photos decoded under every behaviour of  *)
(* the capabilities, and a photo that does not decode                      *)
(***************************************************************************)
FaceCallVerifyOutcomes ==
    {[raises |-> TRUE, verified |-> FALSE, distance |-> 0]}
    \cup {[raises |-> FALSE, verified |-> TRUE, distance |-> d] : d \in {20, 90}}
    \cup {[raises |-> FALSE, verified |-> FALSE, distance |-> d] : d \in {45, 50, 51, 90}}

FaceCallAnalyzeOutcomes ==
    {[raises |-> TRUE, face_confidence |-> 0]}
    \cup {[raises |-> FALSE, face_confidence |-> c] : c \in {-10, 5, 90, 150}}

FaceCallAadhaarOcr ==
    {[raises |-> TRUE, pdf |-> FALSE, pages |-> <<"">>],
     [raises |-> FALSE, pdf |-> FALSE, pages |-> <<"Aadhaar No 234123410008">>],
     [raises |-> FALSE, pdf |-> TRUE, pages |-> <<"Aadhaar No", "234123410008">>],
     [raises |-> FALSE, pdf |-> TRUE, pages |-> <<"Unique Identification", "No 234123410008">>],
     [raises |-> FALSE, pdf |-> FALSE, pages |-> <<"Govt of India 2341 2341 0008">>]}

FaceCallPanOcr ==
    {[raises |-> TRUE, pdf |-> FALSE, pages |-> <<"">>],
     [raises |-> FALSE, pdf |-> FALSE, pages |-> <<"INCOME TAX DEPARTMENT ABCDE1234F">>],
     [raises |-> FALSE, pdf |-> FALSE, pages |-> <<"Permanent Account Number Card">>]}

\* aadhaar_xml_path and uidai_public_key_path supplied or not, and the result of
\* verify_aadhaar_offline when both are
OfflineArguments ==
    {a \in [xml_given : BOOLEAN, key_given : BOOLEAN, offline : BOOLEAN] :
        a.offline => (a.xml_given /\ a.key_given)}

FaceCallCaps ==
    {[imread_id |-> TRUE, imread_selfie |-> TRUE, verify |-> v, analyze |-> a,
      aadhaar_exists |-> ae, pan_exists |-> pe, aadhaar_ocr |-> ao, pan_ocr |-> po,
      xml_given |-> x.xml_given, key_given |-> x.key_given, offline |-> x.offline] :
        v \in FaceCallVerifyOutcomes, a \in FaceCallAnalyzeOutcomes,
        ae \in BOOLEAN, pe \in BOOLEAN, ao \in FaceCallAadhaarOcr,
        po \in FaceCallPanOcr, x \in OfflineArguments}
    \cup {[c EXCEPT !.imread_id = i, !.imread_selfie = j] :
            c \in FaceCaps, i \in BOOLEAN, j \in BOOLEAN}
    \cup [imread_id : BOOLEAN, imread_selfie : BOOLEAN,
          verify : FaceCallVerifyOutcomes,
          analyze : {[raises |-> FALSE, face_confidence |-> 90]},
          aadhaar_exists : {FALSE}, pan_exists : {FALSE},
          aadhaar_ocr : {[raises |-> TRUE, pdf |-> FALSE, pages |-> <<"">>]},
          pan_ocr : {[raises |-> TRUE, pdf |-> FALSE, pages |-> <<"">>]},
          xml_given : {FALSE}, key_given : {FALSE}, offline : {FALSE}]

FaceCallAadhaarNumbers == {SampleAadhaar, "234123410009"}
FaceCallPanNumbers == {SamplePan, "abcde1234f"}

FaceCallInputs ==
    [cap : FaceCallCaps, aadhaar_number : FaceCallAadhaarNumbers,
     pan_number : FaceCallPanNumbers]

InitFace ==
    /\ SubmitIdle
    /\ narr = StoryIdle
    /\ fraud = FraudIdle
    /\ eng = EngagementIdle
    /\ agg = AggIdle
    /\ aad = AadhaarIdle
    /\ pan = PanIdle
    /\ off = OfflineIdle
    /\ doc = DocIdle
    /\ \E in \in FaceCallInputs : face = [in |-> in, out |-> ZeroBreakdown, returned |-> FALSE]

NextFace == CallVerifyFace /\ UNCHANGED <<agg, aad, pan, off, doc, submitVars, textVars>>

SpecFace == InitFace /\ [][NextFace]_vars

(***************************************************************************)
(* The calls of verify_supporting_document                                 *)
(***************************************************************************)
DocCallTexts ==
    {"", "   ", "lorem ipsum dolor",
     "Diagnosis", "Diagnosis and treatment", "City HOSPITAL: doctor's prescription",
     "Medical diagnosis, treatment at the hospital",
     "Doctor: medical diagnosis and treatment, hospital ward",
     "Hospital doctor, medical diagnosis, prescription and treatment",
     "Fee receipt", "University admission fee receipt for the semester, college office",
     "NGO registration certificate", "distrust of coffee",
     "Government registered trust and society"}

DocCallPages ==
    {<<>>, <<"", "">>, <<"Hospital", "Doctor">>,
     <<"Diagnosis and treat", "ment by the doctor">>,
     <<"Medical diagnosis", "treatment at the hospital", "">>}
    \cup {<<t>> : t \in DocCallTexts}

\* an image file or a PDF, with OCR raising or returning
DocCallOcr ==
    {[raises |-> TRUE, pdf |-> f, pages |-> <<"">>] : f \in BOOLEAN}
    \cup {[raises |-> FALSE, pdf |-> FALSE, pages |-> <<t>>] : t \in DocCallTexts}
    \cup {[raises |-> FALSE, pdf |-> TRUE, pages |-> pp] : pp \in DocCallPages}

DocCallTypes == {"medical", "education", "ngo_certificate", "rent"}

DocCallInputs == [exists : BOOLEAN, ocr : DocCallOcr, doc_type : DocCallTypes]

InitDoc ==
    /\ SubmitIdle
    /\ narr = StoryIdle
    /\ fraud = FraudIdle
    /\ eng = EngagementIdle
    /\ agg = AggIdle
    /\ aad = AadhaarIdle
    /\ pan = PanIdle
    /\ off = OfflineIdle
    /\ face = FaceIdle
    /\ \E in \in DocCallInputs : doc = [in |-> in, out |-> 0, score |-> 0, returned |-> FALSE]

NextDoc == CallVerifyDocument /\ UNCHANGED <<agg, aad, pan, off, face, submitVars, textVars>>

SpecDoc == InitDoc /\ [][NextDoc]_vars

(***************************************************************************)
(* The calls of score_story: every behaviour of the three capabilities on  *)
(* a clean text and on texts with scam phrases                             *)
(***************************************************************************)
StoryCallFlesch ==
    {[raises |-> TRUE, value |-> 0]}
    \cup {[raises |-> FALSE, value |-> v] : v \in {-1500, 0, 4555, 6532, 10000, 12122}}

StoryCallZeroShot ==
    {[raises |-> TRUE, genuine |-> 0]}
    \cup {[raises |-> FALSE, genuine |-> g] : g \in {0, 1001, 5000, 8000, 10000}}

StoryCallSentiment ==
    {[raises |-> TRUE, label |-> "", score |-> 0]}
    \cup {[raises |-> FALSE, label |-> l, score |-> c] :
            l \in {"POSITIVE", "NEGATIVE", "negative", "NEUTRAL"},
            c \in {5000, 9987, 10000}}

StoryCallTexts ==
    {"We lost our home in the flood and need help to rebuild.",
     "Join now, this is a lottery with no risk.",
     "Guarantee returns! Double your money, urgent investment: lottery or inheritance, 100% safe, get rich quick."}

StoryCallInputs ==
    [nlp : [flesch : StoryCallFlesch, zero_shot : StoryCallZeroShot,
            sentiment : StoryCallSentiment],
     text : StoryCallTexts]

InitStory ==
    /\ SubmitIdle
    /\ fraud = FraudIdle
    /\ eng = EngagementIdle
    /\ agg = AggIdle
    /\ aad = AadhaarIdle
    /\ pan = PanIdle
    /\ off = OfflineIdle
    /\ face = FaceIdle
    /\ doc = DocIdle
    /\ \E in \in StoryCallInputs :
          narr = [in |-> in, out |-> [raises |-> FALSE, value |-> 0], returned |-> FALSE]

NextStory == CallScoreStory /\ UNCHANGED <<agg, aad, pan, off, face, doc, fraud, eng, submitVars>>

SpecStory == InitStory /\ [][NextStory]_vars

(***************************************************************************)
(* The calls of check_fraud_markers: texts of up to three pieces, a piece  *)
(* being a scam phrase, a harmless word, or a scam phrase inside a word    *)
(***************************************************************************)
FraudPieces ==
    {"lottery", "Inheritance", "100% safe", "URGENT investment", "get rich quick",
     "double your money", "hello", "lotteryx"}

FraudTexts ==
    {""} \cup FraudPieces
    \cup {a \o " " \o b : a \in FraudPieces, b \in FraudPieces}
    \cup {a \o ", " \o b \o ". " \o c : a \in FraudPieces, b \in FraudPieces, c \in FraudPieces}
    \cup {"Guarantee returns! Double your money, urgent investment: lottery or inheritance, 100% safe, get rich quick."}

InitFraud ==
    /\ SubmitIdle
    /\ narr = StoryIdle
    /\ eng = EngagementIdle
    /\ agg = AggIdle
    /\ aad = AadhaarIdle
    /\ pan = PanIdle
    /\ off = OfflineIdle
    /\ face = FaceIdle
    /\ doc = DocIdle
    /\ \E t \in FraudTexts : fraud = [in |-> t, out |-> 0, returned |-> FALSE]

NextFraud == CallCheckFraudMarkers /\ UNCHANGED <<agg, aad, pan, off, face, doc, narr, eng, submitVars>>

SpecFraud == InitFraud /\ [][NextFraud]_vars

(***************************************************************************)
(* The calls of calculate_engagement_score: stories with and without the   *)
(* keywords, cut or filled to lengths around the two length limits         *)
(***************************************************************************)
RECURSIVE Filler(_, _)
Filler(s, n) == IF Len(s) >= n THEN SubSeq(s, 1, n) ELSE Filler(s \o s, n)

Fit(prefix, n) ==
    IF Len(prefix) >= n THEN SubSeq(prefix, 1, n)
    ELSE prefix \o Filler(" and so on", n - Len(prefix))

EngagementPrefixes ==
    {"", "challenge", "Challenge IMPACT", "my community made an impact",
     "achievement motivation challenge impact community", "unchallenged",
     "Motivation"}

EngagementLengths == {0, 50, 99, 100, 101, 550, 999, 1000, 1001, 1500}

EngagementTexts == {Fit(p, n) : p \in EngagementPrefixes, n \in EngagementLengths}

InitEngagement ==
    /\ SubmitIdle
    /\ narr = StoryIdle
    /\ fraud = FraudIdle
    /\ agg = AggIdle
    /\ aad = AadhaarIdle
    /\ pan = PanIdle
    /\ off = OfflineIdle
    /\ face = FaceIdle
    /\ doc = DocIdle
    /\ \E t \in EngagementTexts : eng = [in |-> t, out |-> 0, returned |-> FALSE]

NextEngagement == CallEngagementScore /\ UNCHANGED <<agg, aad, pan, off, face, doc, narr, fraud, submitVars>>

SpecEngagement == InitEngagement /\ [][NextEngagement]_vars

(***************************************************************************)
(* Claims                                                                  *)
(***************************************************************************)
OtherTrustInputsZero ==
    /\ agg.in.face_score = 0
    /\ agg.in.emotion_score = 0
    /\ agg.in.engagement_score = 0
    /\ agg.in.admin_adjustment = 0

\* the declared ranges of the aggregator's arguments
InDeclaredRanges(in) ==
    /\ 0 <= in.face_score /\ in.face_score <= 100
    /\ 0 <= in.doc_score /\ in.doc_score <= 20
    /\ 0 <= in.emotion_score /\ in.emotion_score <= 100
    /\ 0 <= in.engagement_score /\ in.engagement_score <= 100
    /\ 0 <= in.story_score /\ in.story_score <= 2000
    /\ -100 <= in.admin_adjustment /\ in.admin_adjustment <= 100

\* C1: for every sub-score combination within the declared ranges,
\* calculate_trust_score returns a trust score between 0 and 100 points.
C1_TrustScoreInRange ==
    (agg.returned /\ InDeclaredRanges(agg.in)) => (0 <= agg.out /\ agg.out <= I2F(100))

\* C2: a raw supporting-document score d (0..20) is divided by 20 once before it
\* is weighted, so with every other input 0 the trust score is
\* 100 * 0.20 * (d / 20) = d points.
C2_DocDividedByTwenty ==
    (/\ agg.returned
     /\ OtherTrustInputsZero
     /\ agg.in.story_score = 0
     /\ 0 <= agg.in.doc_score
     /\ agg.in.doc_score <= 20)
        => agg.out = I2F(agg.in.doc_score)

\* C3: with every other input 0, a narrative raw score of 20 gives a trust score
\* of exactly 25 points and a narrative raw score of 0 gives exactly 0 points.
C3_NarrativeContribution ==
    (agg.returned /\ OtherTrustInputsZero /\ agg.in.doc_score = 0)
        => /\ agg.in.story_score = I2F(20) => agg.out = I2F(25)
           /\ agg.in.story_score = 0 => agg.out = 0

C3_Witness ==
    /\ agg.returned
    /\ OtherTrustInputsZero
    /\ agg.in.doc_score = 0
    /\ agg.in.story_score = I2F(20)
    /\ agg.out = I2F(25)

\* the keys of a submission that are absent or empty
AbsentKeys(sub) ==
    {k \in FieldKeys : sub.form[k] = <<>> \/ sub.form[k] = <<"">>}
    \cup {k \in FileKeys : ~sub.files[k].given \/ sub.files[k].filename = ""}

Received(r) == pc[r] # "idle"
IsComplete(r) == Received(r) /\ AbsentKeys(form[r]) = {}
RecordsOf(r) == {i \in 1..Len(store) : store[i].request = r}

\* C4: a submission with all six fields and all five files never ends in an
\* error outcome: the caller sees a 400 with the missing list or a complete
\* result, never a 500.
C4_NeverAnErrorOutcome == \A r \in Reqs : response[r].status \in {0, 200, 400}

\* C5: a submission with a required field or file absent or empty gets a 400
\* whose missing list holds exactly the absent keys, and for it no file is
\* saved, no verifier or scorer is invoked and no record is stored.
C5_IncompleteRejected ==
    \A r \in Reqs :
        (Received(r) /\ AbsentKeys(form[r]) # {}) =>
            /\ pc[r] = "done"
            /\ response[r].status = 400
            /\ {response[r].missing[i] : i \in 1..Len(response[r].missing)}
                   = AbsentKeys(form[r])
            /\ calls[r] = {}
            /\ \A f \in DOMAIN fs.files : r \notin owners(fs.files[f])
            /\ RecordsOf(r) = {}

C5_Witness ==
    \E r \in Reqs :
        /\ response[r].status = 400
        /\ AbsentKeys(form[r]) = FileKeys
        /\ Len(response[r].missing) = Cardinality(FileKeys)

AfterFace == {"verify_doc", "emotion", "engagement", "story", "aggregate"}
AfterDoc == {"emotion", "engagement", "story", "aggregate"}

\* C6: the face_match verdict of /submit is true whenever the face score that
\* verify_face returned is at least 0.5 (as with verified = true, liveness 0.9).
C6_FaceMatchFromHalf ==
    \A r \in Reqs :
        (pc[r] \in AfterFace /\ locals[r].face_score >= 50) => locals[r].face_match

\* C7: the document_verified verdict of /submit is true if and only if the raw
\* supporting-document score is at least 10.
C7_DocumentVerifiedFromTen ==
    \A r \in Reqs :
        pc[r] \in AfterDoc =>
            (locals[r].document_verified <=> locals[r].doc_score >= 10)

C7_Witness ==
    \E r \in Reqs :
        /\ pc[r] \in AfterDoc
        /\ locals[r].doc_score = 10
        /\ locals[r].document_verified

\* C8: a complete submission that has been answered has exactly one record in
\* the store.
C8_ExactlyOneRecord ==
    \A r \in Reqs :
        (IsComplete(r) /\ pc[r] = "done") => Cardinality(RecordsOf(r)) = 1

\* C9: under every interleaving of two requests, the verifiers of a request read
\* only the files that request uploaded.
C9_ReadsOwnUploadsOnly == \A r \in Reqs : reads[r] \subseteq {r}

\* C10: validate_aadhaar_format returns true exactly for the strings of 12
\* decimal digits whose Verhoeff check value is 0, and false (no exception) for
\* every other string.
C10_AadhaarFormat ==
    aad.returned =>
        (aad.out <=> (Len(aad.in) = 12 /\ IsDecimalString(aad.in) /\ VerhoeffValid(aad.in)))

C10_Witness == aad.returned /\ aad.out /\ Len(aad.in) = 12

\* C11: each 11-digit prefix has exactly one twelfth digit that
\* validate_aadhaar_format accepts, and a 12-digit string whose Verhoeff check
\* value is not 0 is rejected.
Completions(s) == {SubSeq(s, 1, 11) \o ch : ch \in AsciiDigitChars}

IsAsciiDigits(s) == \A i \in 1..Len(s) : char_at(s, i) \in AsciiDigitChars

C11_OneCheckDigit ==
    (aad.returned /\ Len(aad.in) = 12 /\ IsAsciiDigits(aad.in)) =>
        /\ Cardinality({t \in Completions(aad.in) : validate_aadhaar_format(t)}) = 1
        /\ ~VerhoeffValid(aad.in) => ~aad.out

C11_Witness ==
    /\ aad.returned
    /\ Len(aad.in) = 12
    /\ IsAsciiDigits(aad.in)
    /\ ~aad.out
    /\ \E t \in Completions(aad.in) : t # aad.in /\ validate_aadhaar_format(t)

\* C12: validate_pan returns true exactly for the strings made of five letters
\* A-Z, then four digits 0-9, then one letter A-Z, and nothing else.
PanShapeOf(ch) ==
    IF \E i \in 1..26 : ch = SubSeq("ABCDEFGHIJKLMNOPQRSTUVWXYZ", i, i) THEN "L"
    ELSE IF \E i \in 1..10 : ch = SubSeq("0123456789", i, i) THEN "D"
    ELSE "x"

RECURSIVE PanShape(_)
PanShape(s) ==
    IF Len(s) = 0 THEN "" ELSE PanShapeOf(SubSeq(s, 1, 1)) \o PanShape(SubSeq(s, 2, Len(s)))

C12_PanFormat == pan.returned => (pan.out <=> PanShape(pan.in) = "LLLLLDDDDL")

C12_Witness == pan.returned /\ pan.out /\ pan.in = "ZQXJK0907A"

\* C13: verify_aadhaar_offline returns true only when the signature attribute
\* verifies over the data attribute under the issuer's key, and returns false
\* when a file is missing, an attribute is absent, parsing fails, the hex is
\* malformed or the signature does not match.
SignatureHolds(cap) ==
    /\ cap.signature # None
    /\ cap.data = Str(cap.key.signed.data)
    /\ cap.key.loads
    /\ ~fromhex(text_of(cap.signature)).raises
    /\ fromhex(text_of(cap.signature)).bytes = cap.key.signed.bytes

OfflineFailure(cap) ==
    \/ ~cap.xml_exists
    \/ ~cap.key_exists
    \/ cap.signature = None
    \/ cap.data = None
    \/ ~cap.parses
    \/ fromhex(text_of(cap.signature)).raises
    \/ ~SignatureHolds(cap)

C13_OfflineOnlyOnSuccess ==
    off.returned =>
        /\ off.out => SignatureHolds(off.in)
        /\ OfflineFailure(off.in) => ~off.out

C13_Witness == off.returned /\ off.out /\ off.in.signature = Str("A1 B2")

\* the face stage of a verify_face call went through: both photos decoded and
\* the comparison returned
FaceStagePassed ==
    /\ face.returned
    /\ face.in.cap.imread_id
    /\ face.in.cap.imread_selfie
    /\ ~face.in.cap.verify.raises

\* the text of a scan in lower case, "" when nothing could be extracted
PrintedText(ocr) ==
    IF ~ocr.pdf THEN ocr.pages[1]
    ELSE LET joined[n \in 0..Len(ocr.pages)] ==
                 IF n = 0 THEN "" ELSE joined[n - 1] \o ocr.pages[n] \o "\n"
         IN  joined[Len(ocr.pages)]

LoweredText(ocr) == IF ocr.raises THEN "" ELSE lower_str(PrintedText(ocr))

AadhaarFormatValid(s) == Len(s) = 12 /\ IsDecimalString(s) /\ VerhoeffValid(s)
PanFormatValid(s) == PanShape(s) = "LLLLLDDDDL"

\* C14: when offline verification is not attempted (XML and key not both
\* supplied), aadhaar_valid is what it is with no offline artifact at all.
C14_NotAttemptedNotLowered ==
    (FaceStagePassed /\ ~(face.in.cap.xml_given /\ face.in.cap.key_given)) =>
        \A plain \in verify_face([face.in.cap EXCEPT !.xml_given = FALSE,
                                                     !.key_given = FALSE],
                                 face.in.aadhaar_number, face.in.pan_number) :
            face.out.aadhaar_valid = plain.aadhaar_valid

\* C15: a format-valid PAN whose scan shows that number as printed gets
\* pan_valid = true.
C15_PanFoundInOwnScan ==
    (/\ FaceStagePassed
     /\ PanFormatValid(face.in.pan_number)
     /\ face.in.cap.pan_exists
     /\ ~face.in.cap.pan_ocr.raises
     /\ contains(face.in.cap.pan_ocr.pages[1], face.in.pan_number))
        => face.out.pan_valid

\* C16: with no offline XML, an ID of invalid format gets verdict false; a
\* format-valid ID with no scan on disk gets verdict true; with a scan, the
\* verdict is true exactly when the ID is a substring of the lower-cased text.
CrossChecked(format_valid, scan_exists, ocr, number) ==
    IF ~format_valid THEN FALSE
    ELSE IF ~scan_exists THEN TRUE
    ELSE contains(LoweredText(ocr), number)

C16_CrossCheckVerdicts ==
    (FaceStagePassed /\ ~face.in.cap.xml_given) =>
        /\ face.out.aadhaar_valid
             <=> CrossChecked(AadhaarFormatValid(face.in.aadhaar_number),
                              face.in.cap.aadhaar_exists, face.in.cap.aadhaar_ocr,
                              face.in.aadhaar_number)
        /\ face.out.pan_valid
             <=> CrossChecked(PanFormatValid(face.in.pan_number),
                              face.in.cap.pan_exists, face.in.cap.pan_ocr,
                              face.in.pan_number)

C16_Witness ==
    /\ FaceStagePassed
    /\ ~face.in.cap.xml_given
    /\ face.in.cap.aadhaar_exists
    /\ face.out.aadhaar_valid
    /\ PanFormatValid(face.in.pan_number)
    /\ face.in.cap.pan_exists
    /\ ~face.in.cap.pan_ocr.raises
    /\ ~face.out.pan_valid

\* C17: face_match_score is 1.0 when verified, else 0.5 when the distance is at
\* most face_threshold + 0.1, else 0.0; no other value is returned.
C17_FaceMatchScore ==
    face.returned =>
        /\ face.out.face_match_score \in {0, 50, 100}
        /\ FaceStagePassed =>
             face.out.face_match_score =
                 (IF face.in.cap.verify.verified THEN 100
                  ELSE IF face.in.cap.verify.distance <= 50 THEN 50
                  ELSE 0)

C17_Witness ==
    /\ FaceStagePassed
    /\ ~face.in.cap.verify.verified
    /\ face.in.cap.verify.distance = 50
    /\ face.out.face_match_score = 50

\* C18: total_score is 0.7 * face_match_score + 0.3 * liveness_score rounded to
\* two decimals, lies in [0, 1], and is the same whatever the two ID numbers are.
TotalScores(in) ==
    {o.total_score : o \in verify_face(in.cap, in.aadhaar_number, in.pan_number)}

C18_TotalScore ==
    face.returned =>
        /\ 100 * face.out.total_score - 50
               <= 70 * face.out.face_match_score + 30 * face.out.liveness_score
        /\ 70 * face.out.face_match_score + 30 * face.out.liveness_score
               <= 100 * face.out.total_score + 50
        /\ 0 <= face.out.total_score
        /\ face.out.total_score <= 100
        /\ \A a \in FaceCallAadhaarNumbers, p \in FaceCallPanNumbers :
               TotalScores([face.in EXCEPT !.aadhaar_number = a, !.pan_number = p])
                   = TotalScores(face.in)

C18_Witness ==
    /\ FaceStagePassed
    /\ face.out.face_match_score = 100
    /\ face.out.liveness_score = 90
    /\ face.out.total_score = 97
    /\ ~face.out.aadhaar_valid

\* C19: when a photo does not decode or the face comparison raises, verify_face
\* returns the all-zero outcome, and the face_match verdict drawn from it is false.
C19_FailureGivesZeroOutcome ==
    (/\ face.returned
     /\ \/ ~face.in.cap.imread_id
        \/ ~face.in.cap.imread_selfie
        \/ face.in.cap.verify.raises)
        => /\ face.out = ZeroBreakdown
           /\ ~face_match_of(face.out.total_score)

C19_Witness ==
    /\ face.returned
    /\ face.in.cap.imread_id
    /\ ~face.in.cap.imread_selfie
    /\ ~face.in.cap.verify.raises
    /\ face.out = ZeroBreakdown

\* C20: the supporting-document score is floor(matched / total * weight) for a
\* known category, an integer from 0 to 20, and 0 for an unknown category, a
\* missing file, or empty or unextractable text.
MatchedKeywords(ocr, doc_type) ==
    LET keywords == SUPPORTING_DOCUMENT_TYPES[doc_type].keywords
    IN  {k \in 1..Len(keywords) : contains(LoweredText(ocr), lower_str(keywords[k]))}

FloorScore(ocr, doc_type) ==
    IF doc_type \notin {"medical", "education", "ngo_certificate"} THEN 0
    ELSE IF LoweredText(ocr) = "" THEN 0
    ELSE CHOOSE n \in 0..20 :
            /\ 6 * n <= 20 * Cardinality(MatchedKeywords(ocr, doc_type))
            /\ 20 * Cardinality(MatchedKeywords(ocr, doc_type)) < 6 * (n + 1)

C20_SupportingDocumentScore ==
    doc.returned =>
        /\ doc.out \in 0..20
        /\ doc.out = (IF doc.in.exists THEN FloorScore(doc.in.ocr, doc.in.doc_type) ELSE 0)
        /\ doc.score = FloorScore(doc.in.ocr, doc.in.doc_type)

C20_Witness ==
    /\ doc.returned
    /\ doc.in.exists
    /\ Cardinality(MatchedKeywords(doc.in.ocr, "medical")) = 4
    /\ doc.in.doc_type = "medical"
    /\ doc.out = 13

\* the reading-ease metric (hundredths) divided by 10 and clamped to [0, 10],
\* in thousandths
ReadabilityOf(flesch) ==
    IF flesch.value < 0 THEN 0 ELSE IF flesch.value > 10000 THEN 10000 ELSE flesch.value

Clamp(x, lo, hi) == IF x < lo THEN lo ELSE IF x > hi THEN hi ELSE x

\* C21: score_story returns clamp(readability + authenticity + emotion +
\* fraud_penalty, 0, 20) rounded to two decimals, always within [0, 20], with
\* readability the reading-ease metric divided by 10 and clamped to [0, 10].
C21_StoryScoreClamped ==
    (narr.returned /\ ~narr.out.raises) =>
        /\ 0 <= narr.out.value
        /\ narr.out.value <= 2000
        /\ \E authenticity \in check_authenticity(narr.in.nlp),
              emotion \in check_emotional_appeal(narr.in.nlp) :
              \E total \in {Clamp(ReadabilityOf(narr.in.nlp.flesch) + 10 * authenticity
                                  + 10 * emotion
                                  + 1000 * check_fraud_markers(narr.in.text),
                                  0, 20000)} :
                  /\ 10 * narr.out.value - 5 <= total
                  /\ total <= 10 * narr.out.value + 5

C21_Witness ==
    /\ narr.returned
    /\ ~narr.out.raises
    /\ narr.in.nlp.flesch.value < 0
    /\ narr.in.nlp.sentiment.score = 9987
    /\ narr.in.nlp.sentiment.label = "NEGATIVE"
    /\ check_fraud_markers(narr.in.text) = -5
    /\ narr.out.value = 0

\* C22: a failure of the reading-ease metric, of the zero-shot classifier or of
\* the sentiment classifier never aborts score_story: it still returns a score.
C22_StoryScoreSurvivesFailure ==
    (/\ narr.returned
     /\ \/ narr.in.nlp.flesch.raises
        \/ narr.in.nlp.zero_shot.raises
        \/ narr.in.nlp.sentiment.raises)
        => ~narr.out.raises

\* the keywords of the engagement list that occur in the text, whatever the case
EngagementHits(text) ==
    {kw \in {"challenge", "achievement", "motivation", "impact", "community"} :
        contains(lower_str(text), kw)}

\* C23: calculate_engagement_score returns
\* round(0.7 * clamp(len, 100, 1000) / 1000 + 0.3 * matched / 5, 2), a keyword
\* matching as a case-insensitive substring, and the result is within [0, 1].
C23_EngagementScore ==
    eng.returned =>
        \E exact \in {7 * Clamp(Len(eng.in), 100, 1000)
                      + 600 * Cardinality(EngagementHits(eng.in))} :
            /\ 100 * eng.out - 50 <= exact
            /\ exact <= 100 * eng.out + 50
            /\ 0 <= eng.out
            /\ eng.out <= 100

C23_Witness ==
    /\ eng.returned
    /\ Len(eng.in) = 1500
    /\ Cardinality(EngagementHits(eng.in)) = 2
    /\ eng.out = 82

\* the occurrences of the scam phrases in the text: a phrase at a position,
\* between word boundaries, whatever the case
FraudOccurrences(text) ==
    {<<k, i>> \in (1..Len(fraud_keywords)) \X (0..Len(text)) :
        /\ i + Len(fraud_keywords[k]) <= Len(text)
        /\ lower_str(SubSeq(text, i + 1, i + Len(fraud_keywords[k]))) = fraud_keywords[k]
        /\ word_boundary(text, i)
        /\ word_boundary(text, i + Len(fraud_keywords[k]))}

\* C26: the fraud penalty is -min(5, number of occurrences of scam phrases in
\* the text), so it lies in [-5, 0].
C26_PenaltyPerOccurrence ==
    fraud.returned =>
        /\ fraud.out = 0 - Min(5, Cardinality(FraudOccurrences(fraud.in)))
        /\ -5 <= fraud.out
        /\ fraud.out <= 0

\* C24: whatever numbers calculate_trust_score is called with, also a sub-score
\* below its minimum or above its maximum, the returned trust score is within
\* [0, 100].
C24_ClampedForAnyInput == agg.returned => (0 <= agg.out /\ agg.out <= I2F(100))

\* C28: the trust score does not decrease when the raw narrative score grows
\* within 0..20, the other arguments being equal.
C28_NarrativeMonotone ==
    (agg.returned /\ 0 <= agg.in.story_score /\ agg.in.story_score <= I2F(20)) =>
        \A s2 \in {s \in {in.story_score : in \in TrustInputs} :
                      agg.in.story_score <= s /\ s <= I2F(20)} :
            \E t2 \in calculate_trust_score(agg.in.face_score, I2F(agg.in.doc_score),
                                            agg.in.emotion_score,
                                            agg.in.engagement_score, s2,
                                            agg.in.admin_adjustment) :
                agg.out <= t2

\* C25: the liveness score is the confidence reported for the selfie clamped to
\* [0, 1], and 0 when the capability fails; the failure is not propagated, so
\* the face_match_score already computed stays and the outcome is the one of a
\* reported confidence of 0.
C25_LivenessClampedAndContained ==
    FaceStagePassed =>
        /\ face.out.liveness_score =
               (IF face.in.cap.analyze.raises THEN 0
                ELSE Clamp(face.in.cap.analyze.face_confidence, 0, 100))
        /\ face.in.cap.analyze.raises =>
               /\ face.out.face_match_score =
                      (IF face.in.cap.verify.verified THEN 100
                       ELSE IF face.in.cap.verify.distance <= 50 THEN 50
                       ELSE 0)
               /\ face.out \in
                      verify_face([face.in.cap EXCEPT
                                      !.analyze = [raises |-> FALSE, face_confidence |-> 0]],
                                  face.in.aadhaar_number, face.in.pan_number)

C25_Witness ==
    /\ FaceStagePassed
    /\ face.in.cap.analyze.raises
    /\ face.out.face_match_score = 100
    /\ face.out.liveness_score = 0
    /\ face.out.total_score = 70
    /\ face.out.aadhaar_valid

\* C30: when a photo does not decode or the face comparison raises, aadhaar_valid
\* and pan_valid are both false whatever the ID numbers are; either verdict is
\* true only in an outcome whose face comparison completed.
C30_VerdictsGatedOnFaceStage ==
    face.returned =>
        /\ (\/ ~face.in.cap.imread_id
            \/ ~face.in.cap.imread_selfie
            \/ face.in.cap.verify.raises)
               => (~face.out.aadhaar_valid /\ ~face.out.pan_valid)
        /\ (face.out.aadhaar_valid \/ face.out.pan_valid) => FaceStagePassed

C30_Witness ==
    /\ face.returned
    /\ face.in.cap.verify.raises
    /\ face.in.cap.imread_id
    /\ face.in.cap.imread_selfie
    /\ validate_aadhaar_format(face.in.aadhaar_number)
    /\ validate_pan(face.in.pan_number)
    /\ ~face.in.cap.aadhaar_exists
    /\ ~face.in.cap.pan_exists
    /\ ~face.in.cap.xml_given
    /\ ~face.out.aadhaar_valid
    /\ ~face.out.pan_valid

\* a number with the digit at position i replaced by ch, and with the digits at
\* positions i and i + 1 exchanged
WithDigit(s, i, ch) == SubSeq(s, 1, i - 1) \o ch \o SubSeq(s, i + 1, Len(s))

Transposed(s, i) ==
    SubSeq(s, 1, i - 1) \o char_at(s, i + 1) \o char_at(s, i) \o SubSeq(s, i + 2, Len(s))

\* the tables tell two adjacent digits a, b at positions i, i + 1 (counted from
\* the right) from b, a, and each row of the tables takes ten different values
TellsTransposition(i) ==
    \A a \in 0..9, b \in 0..9 :
        a # b =>
            d_table[p_table[(i % 8) + 1][a + 1] + 1][p_table[((i + 1) % 8) + 1][b + 1] + 1]
            # d_table[p_table[(i % 8) + 1][b + 1] + 1][p_table[((i + 1) % 8) + 1][a + 1] + 1]

RowsInjective(table) ==
    \A r \in 1..Len(table) : Cardinality({table[r][k] : k \in 1..10}) = 10

\* C27: for an accepted 12-digit number, replacing any one digit by a different
\* digit, or exchanging two adjacent unequal digits, gives a number that
\* validate_aadhaar_format rejects.  The tables themselves tell every
\* single-digit change and every adjacent exchange at each of the 12 positions.
C27_DetectsSingleErrors ==
    (aad.returned /\ aad.out /\ IsAsciiDigits(aad.in)) =>
        /\ \A i \in 1..12, ch \in AsciiDigitChars :
               ch # char_at(aad.in, i) => ~validate_aadhaar_format(WithDigit(aad.in, i, ch))
        /\ \A i \in 1..11 :
               char_at(aad.in, i) # char_at(aad.in, i + 1)
                   => ~validate_aadhaar_format(Transposed(aad.in, i))
        /\ \A i \in 0..10 : TellsTransposition(i)
        /\ RowsInjective(d_table)
        /\ RowsInjective(p_table)

C27_Witness ==
    /\ aad.returned
    /\ aad.out
    /\ IsAsciiDigits(aad.in)
    /\ \E i \in 1..11 : char_at(aad.in, i) # char_at(aad.in, i + 1)
    /\ ~validate_aadhaar_format(Transposed(aad.in, 11))
    /\ ~validate_aadhaar_format(WithDigit(aad.in, 1, "9"))

\* the values int(k / 6 * 20) takes for k = 0..6
SixKeywordScores == {0, 3, 6, 10, 13, 16, 20}

\* C29: the supporting-document score is one of 0, 3, 6, 10, 13, 16, 20 (never
\* 18), and for a known category the document_verified verdict drawn from it
\* holds exactly when at least 3 of the category's 6 keywords are matched.
C29_ScoreValuesAndVerdict ==
    doc.returned =>
        /\ doc.score \in SixKeywordScores
        /\ doc.out \in SixKeywordScores
        /\ doc.in.doc_type \in {"medical", "education", "ngo_certificate"} =>
              /\ document_verified_of(doc.score)
                    <=> Cardinality(MatchedKeywords(doc.in.ocr, doc.in.doc_type)) >= 3
              /\ doc.in.exists => doc.out = doc.score

C29_Witness ==
    /\ doc.returned
    /\ doc.in.exists
    /\ doc.in.doc_type = "education"
    /\ Cardinality(MatchedKeywords(doc.in.ocr, "education")) = 6
    /\ doc.out = 20
    /\ document_verified_of(doc.out)

====
